---- MODULE Spec2Model ----
(***************************************************************************)
(* The session core of melobot: src/src/melobot/session/base.py.           *)
(*                                                                         *)
(* Scheduling.  The code runs on one asyncio event loop: a task runs,      *)
(* without interruption, from one await that really suspends to the next.  *)
(* A task that is woken from inside the program (a Condition.notify, the   *)
(* release of a Lock it queues on) is appended to the loop's FIFO of ready *)
(* callbacks and runs when it reaches the head (action Step).  A task that *)
(* waits for something outside the program (rule.compare, the handler body *)
(* itself, a timeout, a cancellation) is resumed by an environment action  *)
(* at any moment.                                                          *)
(*                                                                         *)
(* Locks.  asyncio.Lock is FIFO: release() wakes the first queued waiter   *)
(* and nobody can overtake it, which is modelled as handing the lock over. *)
(* The Lock inside each Condition (refresh_cond, wakeup_cond) is taken and *)
(* given back inside one uninterrupted run of a task (every "async with    *)
(* cond" block either ends or reaches cond.wait(), which releases it,      *)
(* before the next suspension), so it is never found taken and only the    *)
(* Conditions' waiter queues are state.                                    *)
(***************************************************************************)
EXTENDS Integers, Sequences, FiniteSets, TLC

\* Bounds of the model.
NumTasks == 3
NumUsers == 2
MaxSuspends == 1
MaxOneShots == 1
MaxCancels == 1

Tasks == 1 .. NumTasks
\* Delivery t carries event t; the session it creates, if any, is session t.
Events == Tasks
Sessions == Tasks
Users == 1 .. NumUsers
Rules == {"R"}
NoRule == "NoRule"
NoTask == 0
NoSession == 0

VARIABLES
    task,           \* per delivery task: where it is in Session.get / ctx() and its locals
    arg,            \* per delivery task: the arguments of its Session.get call
    session,        \* per session: _state, event, keep, rule
    instances,      \* Session.__instances__: rule -> set of sessions
    instance_locks, \* Session.__instance_locks__: rule -> Lock (owner, FIFO of waiters)
    refresh_cond,   \* per session: waiters of refresh_cond, in order
    wakeup_cond,    \* per session: waiters of wakeup_cond, in order
    ready,          \* the event loop's FIFO of tasks woken by a notify or a lock release
    obj,            \* a lone Session object driven by direct method calls (SpecSM)
    twin,           \* a pair of AsyncTwinEvent and the calls made on it (SpecTwin)
    handler,        \* the registered handler: has it a _rule, its _wait_flag (SpecBM)
    STORAGE,        \* BotSessionManager.STORAGE[handler]: set of sessions
    HUP_STORAGE,    \* BotSessionManager.HUP_STORAGE[handler]: set of suspended sessions
    WORK_LOCKS,     \* BotSessionManager.WORK_LOCKS[handler]: Lock (owner, FIFO of waiters)
    ATTACH_LOCKS,   \* BotSessionManager.ATTACH_LOCKS[handler]: Lock (owner, FIFO of waiters)
    DEADLOCK_FLAGS, \* BotSessionManager.DEADLOCK_FLAGS[handler]: Event, set or not
    bsession,       \* per BotSession: its fields
    caller,         \* per event of the handler: where its coroutine is and its locals
    rwc,            \* an RWContext and the coroutines that use it (SpecRW)
    di,             \* the Depends objects of one injected callback and its calls (SpecDI)
    slots,          \* a function wrapped by lock or semaphore and its calls (SpecSlots)
    cool,           \* a function wrapped by cooldown and its calls (SpecCool)
    speed,          \* a function wrapped by speedlimit and its calls (SpecSpeed)
    ipc             \* an IPCManager, the shares made and the last call (SpecIPC)

bmvars == <<handler, STORAGE, HUP_STORAGE, WORK_LOCKS, ATTACH_LOCKS, DEADLOCK_FLAGS, bsession, caller>>
utilvars == <<rwc, di, slots, cool, speed, ipc>>
lone == <<obj, twin, bmvars, utilvars>>
vars == <<task, arg, session, instances, instance_locks, refresh_cond, wakeup_cond, ready, lone>>
mainvars == <<task, arg, session, instances, instance_locks, refresh_cond, wakeup_cond, ready>>

\* The specifications of one source file leave the objects of the others alone.
NoTwin == twin = 0
NoUtils ==
    /\ rwc = 0
    /\ di = 0
    /\ slots = 0
    /\ cool = 0
    /\ speed = 0
    /\ ipc = 0
NoManager ==
    /\ handler = 0
    /\ STORAGE = 0
    /\ HUP_STORAGE = 0
    /\ WORK_LOCKS = 0
    /\ ATTACH_LOCKS = 0
    /\ DEADLOCK_FLAGS = 0
    /\ bsession = 0
    /\ caller = 0
NoSessions ==
    /\ task = 0
    /\ arg = 0
    /\ session = 0
    /\ instances = 0
    /\ instance_locks = 0
    /\ refresh_cond = 0
    /\ wakeup_cond = 0
    /\ ready = 0
    /\ obj = 0

(***************************************************************************)
(* The state classes (base.py 26-99).                                      *)
(***************************************************************************)
States == {"Spare", "Working", "Suspended", "Expired"}
Ops == {"work", "rest", "suspend", "wakeup", "expire"}

\* Which methods each state class overrides; SessionState raises in all the others.
Overrides(st, op) ==
    \/ st = "Spare" /\ op = "work"
    \/ st = "Working" /\ op \in {"rest", "suspend", "expire"}
    \/ st = "Suspended" /\ op = "wakeup"

\* A rest and a suspend without their checks of self.session.rule.
NeedsRuleNever(op) == FALSE

\* A suspend without its check of self.session.rule.
NeedsRuleRestOnly(op) == op = "rest"

\* WorkingSessionState.rest / suspend refuse a session without a rule.
NeedsRule(op) == op \in {"rest", "suspend"}

\* Whether op, called on a session in state st with the given rule, raises SessionStateError.
Raises(st, op, rule) == ~Overrides(st, op) \/ (NeedsRule(op) /\ rule = NoRule)

\* A wakeup that passes SpareSessionState to to_state.
PostStateWakeupSpare(op) ==
    CASE op = "work" -> "Working"
      [] op = "rest" -> "Spare"
      [] op = "suspend" -> "Suspended"
      [] op = "wakeup" -> "Spare"
      [] op = "expire" -> "Expired"

\* The state class the overriding method passes to to_state.
PostState(op) ==
    CASE op = "work" -> "Working"
      [] op = "rest" -> "Spare"
      [] op = "suspend" -> "Suspended"
      [] op = "wakeup" -> "Working"
      [] op = "expire" -> "Expired"

\* A wakeup without "self.session.event = event".
BindsEventWorkOnly(op) == op = "work"

\* work and wakeup bind the event they are given.
BindsEvent(op) == op \in {"work", "wakeup"}

\* A suspend without cond.notify() on refresh_cond.
NotifiesRefreshNoSuspend(op, rule) == op = "rest" \/ (op = "expire" /\ rule # NoRule)

\* The overriding method notifies refresh_cond / wakeup_cond (one waiter).
NotifiesRefresh(op, rule) == op \in {"rest", "suspend"} \/ (op = "expire" /\ rule # NoRule)
NotifiesWakeup(op) == op = "wakeup"


(***************************************************************************)
(* Helpers for the asyncio primitives.                                     *)
(***************************************************************************)
\* Condition.notify(1) / Lock.release: the first waiter, if any, is woken ...
Woken(q) == IF q = <<>> THEN <<>> ELSE <<Head(q)>>
\* ... and leaves the queue.
Rest(q) == IF q = <<>> THEN <<>> ELSE Tail(q)
\* A waiter that is cancelled or timed out leaves the queue without being woken.
Without(q, t) == SelectSeq(q, LAMBDA x : x # t)
InSeq(q, t) == \E i \in 1 .. Len(q) : q[i] = t

\* A get that scans without "async with cls.__instance_locks__[rule]".
LockedNever(l) == FALSE

\* Lock.locked: a caller of acquire has to queue.
Locked(l) == l.owner # NoTask

\* Lock.release: the lock goes to the first queued waiter, or becomes free.
Released(l) ==
    IF l.q = <<>> THEN [owner |-> NoTask, q |-> <<>>]
    ELSE [owner |-> Head(l.q), q |-> Tail(l.q)]

\* A rule whose compare matches every pair of events.
CompareAlways(e1, e2, argf) == TRUE

\* Rule.compare of the modelled rule: two events match iff they share user_id.
Compare(e1, e2, argf) == argf[e1].user = argf[e2].user

\* to_state and the event binding of the overriding method, on session s.
Applied(ss, s, op, ev) ==
    [ss EXCEPT ![s] = [@ EXCEPT !.state = PostState(op),
                                !.event = IF BindsEvent(op) THEN ev ELSE @]]

NoArg == [rule |-> NoRule, user |-> 1, wait |-> TRUE, keep |-> FALSE, cb |-> FALSE]
NoSessionRec == [state |-> "Absent", event |-> 0, keep |-> FALSE, rule |-> NoRule, store |-> 0]
IdleTask ==
    [pc |-> "idle", cur |-> NoSession, phase |-> "none", todo |-> {}, cmpres |-> FALSE,
     expires |-> {}, tmo |-> FALSE, intr |-> "none", sres |-> "none", nsusp |-> 0,
     out |-> "none", path |-> "none", err |-> FALSE, how |-> "none", pstate |-> "none",
     seen |-> FALSE, ncb |-> 0]

\* Session.__init__: a new session is Working and bound to the triggering event.
\* Its store is empty (0); a store that handlers wrote to holds the last writer.
NewSession(ev, rule, keep) ==
    [state |-> "Working", event |-> ev, keep |-> keep, rule |-> rule, store |-> 0]

Set(af, tk, ss, inst, lk, rc, wc, rdy) ==
    /\ arg' = af
    /\ task' = tk
    /\ session' = ss
    /\ instances' = inst
    /\ instance_locks' = lk
    /\ refresh_cond' = rc
    /\ wakeup_cond' = wc
    /\ ready' = rdy

\* A finished task keeps what the claims look at and forgets its scan locals.
DoneTask(tk, out) ==
    [tk EXCEPT !.pc = "done", !.out = out, !.phase = "none", !.todo = {}, !.cmpres = FALSE,
               !.expires = {}, !.tmo = FALSE, !.intr = "none", !.sres = "none", !.nsusp = 0,
               !.how = "none", !.seen = FALSE]
RunTask(tk, s, how) ==
    [tk EXCEPT !.pc = "run", !.cur = s, !.how = how, !.phase = "none", !.todo = {},
               !.cmpres = FALSE, !.expires = {}]

(***************************************************************************)
(* Session.get (base.py 144-204), from one suspension to the next.         *)
(* a: the call's arguments; argf: the arguments of all calls; lk: the      *)
(* locks with this call holding its rule's lock; rdy: the ready queue      *)
(* without the running task.                                               *)
(***************************************************************************)

\* Once get has returned, wait and keep of the call are read no more (keep was copied
\* to session.keep); the model forgets them.
Spent(a) == [a EXCEPT !.wait = TRUE, !.keep = FALSE, !.cb = FALSE]

\* "return" or a raise out of "async with cls.__instance_locks__[rule]": the lock is released.
EndGet(t, a, tk, ss, inst, lk, wc, rdy) ==
    Set([arg EXCEPT ![t] = Spent(a)], [task EXCEPT ![t] = tk], ss, inst,
        [lk EXCEPT ![a.rule] = Released(@)],
        refresh_cond, wc, rdy \o Woken(lk[a.rule].q))

\* A get that wakes the session and also returns it to its caller.
WakeAndReturn(t, a, s, out, lk, rdy) ==
    EndGet(t, a, RunTask(task[t], s, "attached"), Applied(session, s, "wakeup", t), instances,
           lk, [wakeup_cond EXCEPT ![s] = Rest(@)], rdy \o Woken(wakeup_cond[s]))

\* session.wakeup(event); return None          (165-166, 192-193)
Wake(t, a, s, out, lk, rdy) ==
    IF Raises(session[s].state, "wakeup", session[s].rule)
    THEN EndGet(t, a, DoneTask([task[t] EXCEPT !.cur = s], "raised"), session, instances, lk,
                wakeup_cond, rdy)
    ELSE LET notif == NotifiesWakeup("wakeup")
         IN EndGet(t, a, DoneTask([task[t] EXCEPT !.cur = s], out),
                   Applied(session, s, "wakeup", t), instances, lk,
                   IF notif THEN [wakeup_cond EXCEPT ![s] = Rest(@)] ELSE wakeup_cond,
                   IF notif THEN rdy \o Woken(wakeup_cond[s]) ELSE rdy)

\* A get that returns the session without "session.keep = keep".
AttachKeepingKeep(t, a, s, how, lk, rdy) ==
    IF Raises(session[s].state, "work", session[s].rule)
    THEN EndGet(t, a, DoneTask([task[t] EXCEPT !.cur = s], "raised"), session, instances, lk,
                wakeup_cond, rdy)
    ELSE EndGet(t, a, RunTask(task[t], s, how), Applied(session, s, "work", t), instances, lk,
                wakeup_cond, rdy)

\* A get that returns the session with a fresh store.
AttachClearingStore(t, a, s, how, lk, rdy) ==
    IF Raises(session[s].state, "work", session[s].rule)
    THEN EndGet(t, a, DoneTask([task[t] EXCEPT !.cur = s], "raised"), session, instances, lk,
                wakeup_cond, rdy)
    ELSE EndGet(t, a, RunTask(task[t], s, how),
                [Applied(session, s, "work", t) EXCEPT ![s].keep = a.keep, ![s].store = 0],
                instances, lk, wakeup_cond, rdy)

\* session.work(event); session.keep = keep; return session     (171-173, 195-197)
Attach(t, a, s, how, lk, rdy) ==
    IF Raises(session[s].state, "work", session[s].rule)
    THEN EndGet(t, a, DoneTask([task[t] EXCEPT !.cur = s], "raised"), session, instances, lk,
                wakeup_cond, rdy)
    ELSE EndGet(t, a, RunTask(task[t], s, how),
                [Applied(session, s, "work", t) EXCEPT ![s].keep = a.keep], instances, lk,
                wakeup_cond, rdy)

\* A get that makes a new session without "__instances__[rule].add(session)".
CreateUnregistered(t, tk, a, exps, lk, rdy) ==
    EndGet(t, a, RunTask(tk, t, "created"),
           [session EXCEPT ![t] = NewSession(t, a.rule, a.keep)],
           [instances EXCEPT ![a.rule] = @ \ exps], lk, wakeup_cond, rdy)

\* A get that makes a new session without "for session in expires: remove".
CreateKeepingExpired(t, tk, a, exps, lk, rdy) ==
    EndGet(t, a, RunTask(tk, t, "created"),
           [session EXCEPT ![t] = NewSession(t, a.rule, a.keep)],
           [instances EXCEPT ![a.rule] = @ \cup {t}], lk, wakeup_cond, rdy)

\* The expired sessions are removed; a new session is made and registered     (199-204)
Create(t, tk, a, exps, lk, rdy) ==
    EndGet(t, a, RunTask(tk, t, "created"),
           [session EXCEPT ![t] = NewSession(t, a.rule, a.keep)],
           [instances EXCEPT ![a.rule] = (@ \ exps) \cup {t}], lk, wakeup_cond, rdy)

\* The lazy filter advances to its next session in state st (skipping, unvisited, any
\* sessions not in that state that the set's iteration order puts before it) and the
\* task awaits rule.compare(session.event, event).
Compares(t, tk, a, argf, phase, st, td, exps, lk, rdy) ==
    \E s \in {u \in td : session[u].state = st} :
    \E skip \in SUBSET {u \in td : session[u].state # st} :
        /\ Set([arg EXCEPT ![t] = a],
               [task EXCEPT ![t] = [tk EXCEPT !.pc = "cmp", !.phase = phase, !.cur = s,
                                             !.todo = td \ (skip \cup {s}),
                                             !.cmpres = Compare(session[s].event, t, argf),
                                             !.expires = exps]],
               session, instances, lk, refresh_cond, wakeup_cond, rdy)
NoneIn(td, st) == \A u \in td : session[u].state # st

\* for session in workings: ...            (175-197), then creation
ScanWork(t, tk, a, argf, td, exps, lk, rdy) ==
    \/ Compares(t, tk, a, argf, "work", "Working", td, exps, lk, rdy)
    \/ /\ NoneIn(td, "Working")
       /\ Create(t, tk, a, exps, lk, rdy)

\* for session in spares: ...              (168-173); then workings and expires are set up
ScanSpare(t, a, argf, td, lk, rdy) ==
    \/ Compares(t, task[t], a, argf, "spare", "Spare", td, {}, lk, rdy)
    \/ /\ NoneIn(td, "Spare")
       /\ ScanWork(t, task[t], a, argf, instances[a.rule],
                   {u \in instances[a.rule] : session[u].state = "Expired"}, lk, rdy)

\* for session in suspends: ...            (160-166)
ScanSusp(t, a, argf, td, lk, rdy) ==
    \/ Compares(t, task[t], a, argf, "susp", "Suspended", td, {}, lk, rdy)
    \/ /\ NoneIn(td, "Suspended")
       /\ ScanSpare(t, a, argf, instances[a.rule], lk, rdy)

(***************************************************************************)
(* The actions of a delivery task.                                         *)
(***************************************************************************)

\* Deliveries are numbered in the order of their calls, and users in the order of their
\* first event (the tasks, and the users, are interchangeable).
UsedUsers == {arg[u].user : u \in {v \in Tasks : task[v].pc # "idle" /\ arg[v].rule # NoRule}}
NextUsers == {u \in Users : u = 1 \/ u - 1 \in UsedUsers}

OneShots == {u \in Tasks : task[u].pc # "idle" /\ arg[u].rule = NoRule}

\* Task t calls Session.get(event t, rule, wait, keep) with one of the given rules or
\* without a rule                                                 (144-160)
DeliverUnder(t, rules) ==
    /\ task[t].pc = "idle"
    /\ \A u \in Tasks : u < t => task[u].pc # "idle"
    /\ \E rule \in rules \cup {NoRule}, user \in NextUsers, wait \in BOOLEAN, keep \in BOOLEAN,
          cb \in BOOLEAN :
        LET a == [rule |-> rule, user |-> user, wait |-> wait, keep |-> keep, cb |-> cb]
            argf == [arg EXCEPT ![t] = a]
        IN  \* nowait_cb is looked at only under a rule and wait=False; it is left out elsewhere
            /\ cb => (rule # NoRule /\ ~wait)
            /\ IF rule = NoRule
               THEN \* return Session(event, rule=None, keep=keep): not registered
                    /\ user = 1 /\ wait
                    /\ Cardinality(OneShots) < MaxOneShots
                    /\ Set([arg EXCEPT ![t] = Spent(a)], [task EXCEPT ![t] = RunTask(@, t, "created")],
                           [session EXCEPT ![t] = NewSession(t, NoRule, keep)],
                           instances, instance_locks, refresh_cond, wakeup_cond, ready)
               ELSE IF ~Locked(instance_locks[rule])
               THEN ScanSusp(t, a, argf, instances[rule],
                             [instance_locks EXCEPT ![rule].owner = t], ready)
               ELSE Set(argf, [task EXCEPT ![t].pc = "lock"], session, instances,
                        [instance_locks EXCEPT ![rule].q = Append(@, t)],
                        refresh_cond, wakeup_cond, ready)
    /\ UNCHANGED lone

\* Task t calls Session.get under the rule R or without a rule.
Deliver(t) == DeliverUnder(t, Rules)

\* The lock was handed to t: the scan starts.
LockAcquired(t, rdy) ==
    ScanSusp(t, arg[t], arg, instances[arg[t].rule], instance_locks, rdy)

\* A get that returns without calling nowait_cb.
NoWaitSilent(t, a, lk, rdy) ==
    EndGet(t, a, DoneTask(task[t], "nowait"), session, instances, lk, wakeup_cond, rdy)

\* if not wait: nowait_cb, if given, is called; return None               (181-184)
NoWait(t, a, lk, rdy) ==
    EndGet(t, a, DoneTask([task[t] EXCEPT !.ncb = IF a.cb THEN @ + 1 ELSE @], "nowait"),
           session, instances, lk, wakeup_cond, rdy)

\* rule.compare returns to t.
CompareDone(t) ==
    /\ task[t].pc = "cmp"
    /\ LET a == arg[t]
           s == task[t].cur
           lk == instance_locks
       IN CASE task[t].phase = "susp" ->
                 IF task[t].cmpres THEN Wake(t, a, s, "woke", lk, ready)
                 ELSE ScanSusp(t, a, arg, task[t].todo, lk, ready)
            [] task[t].phase = "spare" ->
                 IF task[t].cmpres THEN Attach(t, a, s, "attached", lk, ready)
                 ELSE ScanSpare(t, a, arg, task[t].todo, lk, ready)
            [] task[t].phase = "work" ->
                 IF ~task[t].cmpres
                 THEN ScanWork(t, task[t], a, arg, task[t].todo, task[t].expires, lk, ready)
                 ELSE IF ~a.wait
                 THEN NoWait(t, a, lk, ready)
                 ELSE \* async with cond: await cond.wait()              (186-188)
                      Set(arg, [task EXCEPT ![t].pc = "rfwait"], session, instances, lk,
                          [refresh_cond EXCEPT ![s] = Append(@, t)], wakeup_cond, ready)
    /\ UNCHANGED lone

\* t was notified on refresh_cond of the session it waits for     (189-197)
Refreshed(t, rdy) ==
    LET a == arg[t]
        s == task[t].cur
        st == session[s].state
    IN CASE st = "Expired" ->
              \* expires.append(session), and the loop over workings goes on
              ScanWork(t, [task[t] EXCEPT !.seen = TRUE], a, arg, task[t].todo,
                       task[t].expires \cup {s}, instance_locks, rdy)
         [] st = "Suspended" -> Wake(t, a, s, "woke_waited", instance_locks, rdy)
         [] OTHER -> Attach(t, a, s, "waited", instance_locks, rdy)

(***************************************************************************)
(* Session.ctx (206-218) and the handler running inside it.                *)
(***************************************************************************)

\* A ctx without its "except asyncio.CancelledError" clause.
WakesOnExitNever(path, st) == FALSE

\* except asyncio.CancelledError: if self.on_state(SuspendSessionState): wakeup  (211-213)
WakesOnExit(path, st) == path = "cancel" /\ st = "Suspended"

\* finally: rest() if self.keep else expire()                                  (214-218)
ExitOp(keep) == IF keep THEN "rest" ELSE "expire"

\* The exit of "async with session.ctx()" by path: "return", "raise" (an exception of
\* the handler) or "cancel" (CancelledError).  wc: the waiters of the wakeup_conds.
\* Nothing but handlers reads or writes session.store, so what the handler wrote to it
\* while it ran (or nothing) is applied here; a write to a store that no later handler
\* can see (keep is false, or the session has no rule) is not recorded.
CtxExit(t, path, wc, rdy) ==
    \E wrote \in {w \in BOOLEAN : w => (session[task[t].cur].keep
                                         /\ session[task[t].cur].rule # NoRule)} :
    LET s == task[t].cur
        ss0 == IF wrote THEN [session EXCEPT ![s].store = t] ELSE session
        rule == session[s].rule
        \* except asyncio.CancelledError: if self.on_state(SuspendSessionState): wakeup
        woke == WakesOnExit(path, session[s].state)
        ss1 == IF woke THEN Applied(ss0, s, "wakeup", session[s].event) ELSE ss0
        wc1 == IF woke THEN [wc EXCEPT ![s] = Rest(@)] ELSE wc
        rdy1 == IF woke THEN rdy \o Woken(wc[s]) ELSE rdy
        \* finally: rest() if self.keep else expire()
        op == ExitOp(session[s].keep)
        raised == Raises(ss1[s].state, op, rule)
        notif == ~raised /\ NotifiesRefresh(op, rule)
    IN Set(arg, [task EXCEPT ![t] = DoneTask([@ EXCEPT !.path = path, !.err = raised,
                                                       !.pstate = session[s].state], "exited")],
           IF raised THEN ss1 ELSE Applied(ss1, s, op, 0),
           instances, instance_locks,
           IF notif THEN [refresh_cond EXCEPT ![s] = Rest(@)] ELSE refresh_cond,
           wc1,
           IF notif THEN rdy1 \o Woken(refresh_cond[s]) ELSE rdy1)

\* The handler calls suspend(timeout)                          (221-222, 135-136, 62-79)
HandlerSuspend(t) ==
    /\ task[t].pc = "run"
    /\ task[t].intr = "none"
    /\ task[t].nsusp < MaxSuspends
    /\ \E tmo \in BOOLEAN :
        LET s == task[t].cur
        IN IF Raises(session[s].state, "suspend", session[s].rule)
           THEN Set(arg, [task EXCEPT ![t] = [@ EXCEPT !.nsusp = @ + 1, !.err = TRUE]],
                    session, instances, instance_locks, refresh_cond, wakeup_cond, ready)
           ELSE LET notif == NotifiesRefresh("suspend", session[s].rule)
                IN Set(arg, [task EXCEPT ![t] = [@ EXCEPT !.pc = "suspwait", !.nsusp = @ + 1,
                                                          !.tmo = tmo, !.sres = "none"]],
                       Applied(session, s, "suspend", 0), instances, instance_locks,
                       IF notif THEN [refresh_cond EXCEPT ![s] = Rest(@)] ELSE refresh_cond,
                       [wakeup_cond EXCEPT ![s] = Append(@, t)],
                       IF notif THEN ready \o Woken(refresh_cond[s]) ELSE ready)
    /\ UNCHANGED lone

\* The handler returns or raises.
HandlerExit(t) ==
    /\ task[t].pc = "run"
    /\ task[t].intr = "none"
    /\ \E path \in {"return", "raise"} : CtxExit(t, path, wakeup_cond, ready)
    /\ UNCHANGED lone

Cancelled == {u \in Tasks : task[u].intr = "cancel" \/ task[u].path = "cancel"}

\* The handler task is cancelled while it is inside ctx(): it is suspended somewhere (in
\* the handler's own awaits, or in wakeup_cond.wait(), whose waiter is then cancelled
\* and skipped by notify), and CancelledError is thrown into it when the loop runs it.
Cancel(t) ==
    /\ task[t].pc \in {"run", "suspwait"}
    /\ task[t].intr # "cancel"
    /\ Cardinality(Cancelled) < MaxCancels
    /\ task' = [task EXCEPT ![t].intr = "cancel"]
    /\ wakeup_cond' = [wakeup_cond EXCEPT ![task[t].cur] = Without(@, t)]
    /\ ready' = IF InSeq(ready, t) THEN ready ELSE Append(ready, t)
    /\ UNCHANGED <<arg, session, instances, instance_locks, refresh_cond, lone>>

\* The callback of the timer of t's wait_for, as an entry of the ready queue.
Timer(t) == 0 - t

\* The deadline of suspend(timeout) passes: the loop queues the timer's callback, behind
\* what is ready already                                                         (76)
Timeout(t) ==
    /\ task[t].pc = "suspwait"
    /\ task[t].tmo
    /\ task[t].intr = "none"
    /\ ~InSeq(ready, Timer(t))
    /\ ready' = Append(ready, Timer(t))
    /\ UNCHANGED <<task, arg, session, instances, instance_locks, refresh_cond, wakeup_cond, lone>>

\* The loop runs the timer's callback: wait_for cancels wakeup_cond.wait().  A waiter
\* still waiting leaves the queue and is made ready; one notified in the meantime (after
\* the deadline passed) is caught between the two; the callback of a task that was
\* cancelled changes nothing                                                   (75-79)
TimerFired(t, rdy) ==
    /\ task' = [task EXCEPT ![t].intr = CASE @ = "cancel" -> @
                                           [] InSeq(rdy, t) -> "race"
                                           [] OTHER -> "timeout"]
    /\ wakeup_cond' = [wakeup_cond EXCEPT ![task[t].cur] = Without(@, t)]
    /\ ready' = IF InSeq(rdy, t) THEN rdy ELSE Append(rdy, t)
    /\ UNCHANGED <<arg, session, instances, instance_locks, refresh_cond>>

\* A suspend that expires the session when it times out.
ReturnedExpiring(t, r, rdy) ==
    Set(arg, [task EXCEPT ![t] = [@ EXCEPT !.pc = "run", !.sres = r, !.tmo = FALSE, !.intr = "none"]],
        IF r = "false" THEN Applied(session, task[t].cur, "expire", 0) ELSE session,
        instances, instance_locks, refresh_cond, wakeup_cond, rdy)

\* suspend returns r to the handler.
Returned(t, r, rdy) ==
    Set(arg, [task EXCEPT ![t] = [@ EXCEPT !.pc = "run", !.sres = r, !.tmo = FALSE, !.intr = "none"]],
        session, instances, instance_locks, refresh_cond, wakeup_cond, rdy)

\* A wait_for that reports a timeout whenever its deadline has passed, notified or not.
ResumedLate(t, rdy) ==
    CASE task[t].intr = "cancel" -> CtxExit(t, "cancel", wakeup_cond, rdy)
      [] task[t].intr \in {"timeout", "race"} \/ InSeq(ready, Timer(t)) -> Returned(t, "false", rdy)
      [] OTHER -> Returned(t, "true", rdy)

\* The loop runs t, which is in suspend, in wakeup_cond.wait()     (71-79)
Resumed(t, rdy) ==
    CASE task[t].intr = "cancel" -> CtxExit(t, "cancel", wakeup_cond, rdy)
      [] task[t].intr = "timeout" -> Returned(t, "false", rdy)
      [] task[t].intr = "race" ->
            \* the waiter was notified after the deadline and before the timer's callback
            \* ran: wait_for gives True or raises TimeoutError, by the interpreter's version
            \E r \in {"true", "false"} : Returned(t, r, rdy)
      [] OTHER -> Returned(t, "true", rdy)

\* The event loop runs the first ready task.
Step ==
    /\ ready # <<>>
    /\ LET t == Head(ready)
           rdy == Tail(ready)
       IN CASE t < 0 -> TimerFired(0 - t, rdy)
            [] task[t].pc = "lock" -> LockAcquired(t, rdy)
            [] task[t].pc = "rfwait" -> Refreshed(t, rdy)
            \* a task that leaves wait_for cancels its timer
            [] task[t].pc = "suspwait" -> Resumed(t, Without(rdy, Timer(t)))
            [] task[t].pc = "run" -> CtxExit(t, "cancel", wakeup_cond, rdy)
    /\ UNCHANGED lone

Init ==
    /\ task = [t \in Tasks |-> IdleTask]
    /\ arg = [t \in Tasks |-> NoArg]
    /\ session = [s \in Sessions |-> NoSessionRec]
    /\ instances = [r \in Rules |-> {}]
    /\ instance_locks = [r \in Rules |-> [owner |-> NoTask, q |-> <<>>]]
    /\ refresh_cond = [s \in Sessions |-> <<>>]
    /\ wakeup_cond = [s \in Sessions |-> <<>>]
    /\ ready = <<>>
    /\ obj = 0
    /\ NoTwin
    /\ NoManager
    /\ NoUtils

Next ==
    \/ Step
    \/ \E t \in Tasks : Deliver(t)
    \/ \E t \in Tasks : CompareDone(t)
    \/ \E t \in Tasks : HandlerSuspend(t)
    \/ \E t \in Tasks : HandlerExit(t)
    \/ \E t \in Tasks : Cancel(t)
    \/ \E t \in Tasks : Timeout(t)

Spec == Init /\ [][Next]_vars

\* The event loop runs every ready task, and rule.compare returns.
FairSpec == Spec /\ WF_vars(Step) /\ \A t \in Tasks : WF_vars(CompareDone(t))

\* Moreover every handler comes to leave its ctx() or to call suspend.
HandlerFairSpec ==
    FairSpec /\ \A t \in Tasks : WF_vars(HandlerExit(t) \/ HandlerSuspend(t))

(***************************************************************************)
(* The same program with two rules, R and Q, each with its own registry    *)
(* set and its own lock (106-108, 156-157).  The rules are interchangeable: *)
(* R is the rule of the first call that has a rule.                         *)
(***************************************************************************)
TwoRules == {"R", "Q"}
NextRules ==
    IF \E u \in Tasks : task[u].pc # "idle" /\ arg[u].rule # NoRule THEN TwoRules ELSE Rules

InitTwoRules ==
    /\ task = [t \in Tasks |-> IdleTask]
    /\ arg = [t \in Tasks |-> NoArg]
    /\ session = [s \in Sessions |-> NoSessionRec]
    /\ instances = [r \in TwoRules |-> {}]
    /\ instance_locks = [r \in TwoRules |-> [owner |-> NoTask, q |-> <<>>]]
    /\ refresh_cond = [s \in Sessions |-> <<>>]
    /\ wakeup_cond = [s \in Sessions |-> <<>>]
    /\ ready = <<>>
    /\ obj = 0
    /\ NoTwin
    /\ NoManager
    /\ NoUtils

NextTwoRules ==
    \/ Step
    \/ \E t \in Tasks : DeliverUnder(t, NextRules)
    \/ \E t \in Tasks : CompareDone(t)
    \/ \E t \in Tasks : HandlerSuspend(t)
    \/ \E t \in Tasks : HandlerExit(t)
    \/ \E t \in Tasks : Cancel(t)
    \/ \E t \in Tasks : Timeout(t)

SpecTwoRules == InitTwoRules /\ [][NextTwoRules]_vars

(***************************************************************************)
(* A lone Session object under direct calls of its methods (110-142): the  *)
(* state machine of base.py 26-99 on every (state, operation) pair.  obj   *)
(* holds the session's fields and what the last call was, what it found    *)
(* and whether it raised SessionStateError.                                *)
(***************************************************************************)
Constructed(ev, rule, keep) ==
    [s |-> NewSession(ev, rule, keep), op |-> "init", ev |-> ev, raised |-> FALSE,
     pstate |-> "Absent", pevent |-> 0]

\* self._state.<op>(...): the state class's method, or SessionState's, which raises.
Call(op, ev) ==
    /\ obj' = IF Raises(obj.s.state, op, obj.s.rule)
              THEN [obj EXCEPT !.op = op, !.ev = ev, !.raised = TRUE,
                               !.pstate = obj.s.state, !.pevent = obj.s.event]
              ELSE [s |-> Applied([x \in {1} |-> obj.s], 1, op, ev)[1], op |-> op, ev |-> ev,
                    raised |-> FALSE, pstate |-> obj.s.state, pevent |-> obj.s.event]
    /\ UNCHANGED <<mainvars, twin, bmvars, utilvars>>

work == \E e \in Events : Call("work", e)
rest == Call("rest", 0)
suspend == Call("suspend", 0)
wakeup == \E e \in Events : Call("wakeup", e)
expire == Call("expire", 0)

InitSM ==
    /\ task = [t \in Tasks |-> IdleTask]
    /\ arg = [t \in Tasks |-> NoArg]
    /\ session = [s \in Sessions |-> NoSessionRec]
    /\ instances = [r \in Rules |-> {}]
    /\ instance_locks = [r \in Rules |-> [owner |-> NoTask, q |-> <<>>]]
    /\ refresh_cond = [s \in Sessions |-> <<>>]
    /\ wakeup_cond = [s \in Sessions |-> <<>>]
    /\ ready = <<>>
    /\ obj \in {Constructed(e, r, k) : e \in Events, r \in Rules \cup {NoRule}, k \in BOOLEAN}
    /\ NoTwin
    /\ NoManager
    /\ NoUtils

NextSM == work \/ rest \/ suspend \/ wakeup \/ expire

SpecSM == InitSM /\ [][NextSM]_vars

(***************************************************************************)
(* BotSession and BotSessionManager (src/melobot/models/session.py) for    *)
(* one registered handler.  Every event of the handler is handled by one   *)
(* coroutine, its caller, which calls try_attach and get, runs the handler *)
(* body on the session it was given (suspend, destory, writes to the       *)
(* store; an exception of suspend or destory ends the body) and ends with  *)
(* recycle.                                                                *)
(* A coroutine runs without interruption                                   *)
(* from one await that really suspends to the next; which runnable         *)
(* coroutine runs next is left open.  Locks are handed over as above.  An  *)
(* Event that is set releases each of its waiters, whatever happens to the *)
(* Event before the waiter runs.                                           *)
(***************************************************************************)
NumCallers == 4
MaxHups == 2
MaxEmpty == 1
MaxStores == 1
Callers == 1 .. NumCallers
\* The session that caller t's _make or make_empty constructs is session t.
BSessions == Callers
\* The task named 'lock' of caller t's try_attach, as owner or waiter of WORK_LOCKS.
LockTask(t) == 0 - t
elsewhere == <<mainvars, obj, twin, utilvars>>

NoBSession ==
    [made |-> FALSE, tag |-> FALSE, events |-> <<>>, hup_times |-> 0, store |-> FALSE,
     free |-> FALSE, hup |-> FALSE, expired |-> FALSE]

\* BotSession.__init__: empty store and histories, _free_signal set, of the twin
\* pair _hup_signal unset and _awake_signal set (kept as hup alone), not expired.
BotSession(space_tag) ==
    [made |-> TRUE, tag |-> space_tag, events |-> <<>>, hup_times |-> 0, store |-> FALSE,
     free |-> TRUE, hup |-> FALSE, expired |-> FALSE]

IdleCaller ==
    [pc |-> "start", user |-> 0, cur |-> NoSession, t1 |-> "none"]

\* A coroutine that is over: its event was attached, or get gave None, or it recycled.
DoneCaller == [IdleCaller EXCEPT !.pc = "done"]

\* BotSession.event: the last event of the history, or None (0).
event(bs, s) == IF bs[s].events = <<>> THEN 0 ELSE bs[s].events[Len(bs[s].events)]

\* An event is kept as the one attribute the rule reads, its user; Event is the
\* event that caller t handles.
Event(cl, t) == cl[t].user

\* handler._rule.verify of the modelled rule: two events match iff they share the user.
verify(e1, e2) == e1 # 0 /\ e1 = e2

\* _make: a session that carries the event; with a handler that has a rule it is
\* tagged and (by the caller of this operator) added to STORAGE.
_make(bs, t, e, tagged) == [bs EXCEPT ![t] = [BotSession(tagged) EXCEPT !.events = <<e>>]]

\* session.events.append(event)
Appended(bs, s, e) == [bs EXCEPT ![s].events = Append(@, e)]

\* An _expire that leaves the store and the histories as they are.
_expireFlagOnly(bs, st, s) ==
    IF bs[s].expired THEN [bs |-> bs, st |-> st, raised |-> FALSE]
    ELSE [bs |-> [bs EXCEPT ![s].expired = TRUE],
          st |-> IF bs[s].tag THEN st \ {s} ELSE st,
          raised |-> bs[s].tag /\ s \notin st]

\* _expire: what it leaves of the sessions and of STORAGE, and whether the
\* set.remove raised KeyError.
_expire(bs, st, s) ==
    IF bs[s].expired THEN [bs |-> bs, st |-> st, raised |-> FALSE]
    ELSE [bs |-> [bs EXCEPT ![s].events = <<>>, ![s].hup_times = 0, ![s].store = FALSE,
                            ![s].expired = TRUE],
          st |-> IF bs[s].tag THEN st \ {s} ELSE st,
          raised |-> bs[s].tag /\ s \notin st]

UsedBUsers ==
    ({caller[t].user : t \in Callers} \cup {event(bsession, s) : s \in BSessions}) \ {0}
NextBUsers == {u \in Users : u = 1 \/ u - 1 \in UsedBUsers}
\* Events are numbered in the order in which their coroutines start.
Starts(t) == caller[t].pc = "start" /\ (IF t = 1 THEN TRUE ELSE caller[t - 1].pc # "start")

\* try_attach up to "await aio.wait": False at once without a rule; else the
\* ATTACH lock is taken or queued for, and with it tasks 'flag' and 'lock' are created.
try_attach(t) ==
    /\ Starts(t)
    /\ \E u \in NextBUsers :
        caller' = [caller EXCEPT ![t].user = u,
                                 ![t].pc = IF ~handler.rule THEN "tried"
                                           ELSE IF Locked(ATTACH_LOCKS) THEN "att_q"
                                           ELSE "att_new"]
    /\ ATTACH_LOCKS' = IF ~handler.rule THEN ATTACH_LOCKS
                       ELSE IF Locked(ATTACH_LOCKS) THEN [ATTACH_LOCKS EXCEPT !.q = Append(@, t)]
                       ELSE [ATTACH_LOCKS EXCEPT !.owner = t]
    /\ UNCHANGED <<handler, STORAGE, HUP_STORAGE, WORK_LOCKS, DEADLOCK_FLAGS, bsession, elsewhere>>

\* The queued try_attach is handed the ATTACH lock and creates its two tasks.
AttachLocked(t) ==
    /\ caller[t].pc = "att_q" /\ ATTACH_LOCKS.owner = t
    /\ caller' = [caller EXCEPT ![t].pc = "att_new"]
    /\ UNCHANGED <<handler, STORAGE, HUP_STORAGE, WORK_LOCKS, ATTACH_LOCKS, DEADLOCK_FLAGS,
                   bsession, elsewhere>>

\* The two tasks run for the first time, 'flag' then 'lock': DEADLOCK_FLAGS.wait()
\* returns or waits, WORK_LOCKS.acquire() takes the lock or queues.
TasksStart(t) ==
    /\ caller[t].pc = "att_new"
    /\ caller' = [caller EXCEPT ![t].pc = "att_wait",
                                ![t].t1 = IF DEADLOCK_FLAGS THEN "done" ELSE "wait"]
    /\ WORK_LOCKS' = IF Locked(WORK_LOCKS) THEN [WORK_LOCKS EXCEPT !.q = Append(@, LockTask(t))]
                     ELSE [WORK_LOCKS EXCEPT !.owner = LockTask(t)]
    /\ UNCHANGED <<handler, STORAGE, HUP_STORAGE, ATTACH_LOCKS, DEADLOCK_FLAGS, bsession, elsewhere>>

\* __attach: the suspended sessions the event may be attached to (the scan takes
\* the first match of a set).
Hung(t) == {s \in HUP_STORAGE : verify(event(bsession, s), Event(caller, t))}

\* try_attach after aio.wait returned, on the task that done.pop() gives: __attach
\* (append and _rouse, or False), then the flag is cleared and 'lock' cancelled,
\* or the work lock released and 'flag' cancelled; the ATTACH lock is released.
TryAttachDone(t) ==
    /\ caller[t].pc = "att_wait"
    /\ \E first \in {"flag", "lock"}, s \in BSessions \cup {NoSession} :
        /\ first = "flag" => caller[t].t1 = "done"
        /\ first = "lock" => WORK_LOCKS.owner = LockTask(t)
        /\ IF Hung(t) = {} THEN s = NoSession ELSE s \in Hung(t)
        /\ bsession' = IF s = NoSession THEN bsession
                       ELSE [Appended(bsession, s, Event(caller, t)) EXCEPT ![s].hup = FALSE]
        /\ HUP_STORAGE' = HUP_STORAGE \ {s}
        /\ STORAGE' = IF s = NoSession THEN STORAGE ELSE STORAGE \cup {s}
        /\ DEADLOCK_FLAGS' = IF first = "flag" THEN FALSE ELSE DEADLOCK_FLAGS
        /\ WORK_LOCKS' = IF first = "lock" THEN Released(WORK_LOCKS)
                         ELSE [WORK_LOCKS EXCEPT !.q = Without(@, LockTask(t))]
        /\ caller' = [caller EXCEPT ![t] = IF s = NoSession
                                             THEN [@ EXCEPT !.pc = "tried", !.t1 = "none"]
                                             ELSE DoneCaller]
    /\ ATTACH_LOCKS' = Released(ATTACH_LOCKS)
    /\ UNCHANGED <<handler, elsewhere>>

\* Where the handler body is, or was left by an exception, when recycle is called.
InBody == {"run", "suspend_raised", "destory_raised"}

\* A get that returns the session without "session._free_signal.clear()".
ReturnKeepingFree(t, cl, bs, st, s) ==
    /\ bsession' = bs
    /\ STORAGE' = st
    /\ WORK_LOCKS' = Released(WORK_LOCKS)
    /\ caller' = [cl EXCEPT ![t].pc = "run", ![t].cur = s]

\* The end of get: the session's _free_signal is cleared under the work lock,
\* the lock is released and the handler body starts on the session.
Return(t, cl, bs, st, s) ==
    /\ bsession' = [bs EXCEPT ![s].free = FALSE]
    /\ STORAGE' = st
    /\ WORK_LOCKS' = Released(WORK_LOCKS)
    /\ caller' = [cl EXCEPT ![t].pc = "run", ![t].cur = s]

\* _get_on_rule up to its await, under the work lock: the scan of STORAGE (the
\* first match of a set), then a new session, the free session, None, or the wait.
Found(t, cl) ==
    {s \in STORAGE : verify(event(bsession, s), Event(cl, t)) /\ ~bsession[s].expired}

_get_on_rule(t, cl) ==
    /\ \E s \in BSessions \cup {NoSession} :
        /\ IF Found(t, cl) = {} THEN s = NoSession ELSE s \in Found(t, cl)
        /\ CASE s = NoSession ->
                    Return(t, cl, _make(bsession, t, Event(cl, t), TRUE), STORAGE \cup {t}, t)
             [] s # NoSession /\ bsession[s].free ->
                    Return(t, cl, Appended(bsession, s, Event(cl, t)), STORAGE, s)
             [] s # NoSession /\ ~bsession[s].free /\ ~handler.wait_flag ->
                    /\ caller' = [cl EXCEPT ![t] = DoneCaller]
                    /\ WORK_LOCKS' = Released(WORK_LOCKS)
                    /\ UNCHANGED <<bsession, STORAGE>>
             [] OTHER ->
                    /\ caller' = [cl EXCEPT ![t].pc = "get_wait", ![t].cur = s]
                    /\ WORK_LOCKS' = [WORK_LOCKS EXCEPT !.owner = t]
                    /\ UNCHANGED <<bsession, STORAGE>>
    /\ UNCHANGED <<handler, HUP_STORAGE, ATTACH_LOCKS, DEADLOCK_FLAGS, elsewhere>>

\* get: without a rule a one-shot session; with one, the work lock is taken
\* (and _get_on_rule runs) or queued for.
get(t) ==
    /\ IF caller[t].pc = "tried" THEN TRUE ELSE Starts(t)
    /\ \E u \in IF caller[t].pc = "tried" THEN {caller[t].user} ELSE NextBUsers :
        LET cl == [caller EXCEPT ![t].user = u]
        IN  CASE ~handler.rule ->
                    /\ bsession' = [_make(bsession, t, Event(cl, t), FALSE) EXCEPT ![t].free = FALSE]
                    /\ caller' = [cl EXCEPT ![t].pc = "run", ![t].cur = t]
                    /\ UNCHANGED <<handler, STORAGE, HUP_STORAGE, WORK_LOCKS, ATTACH_LOCKS,
                                   DEADLOCK_FLAGS, elsewhere>>
              [] handler.rule /\ Locked(WORK_LOCKS) ->
                    /\ WORK_LOCKS' = [WORK_LOCKS EXCEPT !.q = Append(@, t)]
                    /\ caller' = [cl EXCEPT ![t].pc = "get_q"]
                    /\ UNCHANGED <<handler, STORAGE, HUP_STORAGE, ATTACH_LOCKS, DEADLOCK_FLAGS,
                                   bsession, elsewhere>>
              [] OTHER -> _get_on_rule(t, cl)

\* The queued get is handed the work lock.
GetLocked(t) ==
    /\ caller[t].pc = "get_q" /\ WORK_LOCKS.owner = t
    /\ _get_on_rule(t, caller)

\* _get_on_rule after its waits: a new session if the awaited one expired, else
\* the event is appended to it.
AfterWait(t, cl) ==
    LET s == caller[t].cur
    IN  IF bsession[s].expired
        THEN Return(t, cl, _make(bsession, t, Event(cl, t), TRUE), STORAGE \cup {t}, t)
        ELSE Return(t, cl, Appended(bsession, s, Event(cl, t)), STORAGE, s)

\* DEADLOCK_FLAGS.set(): each waiting task 'flag' is done.
FlagSet(cl) == [c \in Callers |-> IF cl[c].t1 = "wait" THEN [cl[c] EXCEPT !.t1 = "done"] ELSE cl[c]]

\* aio.wait on _free_signal and _hup_signal returned: with _hup_signal set the
\* deadlock flag is set and _free_signal awaited.
GetWoken(t) ==
    LET s == caller[t].cur
    IN  /\ caller[t].pc = "get_wait"
        /\ bsession[s].free \/ bsession[s].hup
        /\ DEADLOCK_FLAGS' = (DEADLOCK_FLAGS \/ bsession[s].hup)
        /\ IF bsession[s].hup /\ ~bsession[s].free
           THEN /\ caller' = [FlagSet(caller) EXCEPT ![t].pc = "get_free"]
                /\ UNCHANGED <<bsession, STORAGE, WORK_LOCKS>>
           ELSE AfterWait(t, IF bsession[s].hup THEN FlagSet(caller) ELSE caller)
        /\ UNCHANGED <<handler, HUP_STORAGE, ATTACH_LOCKS, elsewhere>>

\* "await session._free_signal.wait()" returned.
GetFreed(t) ==
    /\ caller[t].pc = "get_free"
    /\ bsession[caller[t].cur].free
    /\ AfterWait(t, caller)
    /\ UNCHANGED <<handler, HUP_STORAGE, ATTACH_LOCKS, DEADLOCK_FLAGS, elsewhere>>

\* make_empty: a session without event and without space tag, given to a body.
make_empty(t) ==
    /\ Starts(t)
    /\ Cardinality({s \in BSessions : bsession[s].made /\ bsession[s].events = <<>>
                                       /\ ~bsession[s].expired}) < MaxEmpty
    /\ bsession' = [bsession EXCEPT ![t] = BotSession(FALSE)]
    /\ caller' = [caller EXCEPT ![t].pc = "run", ![t].cur = t]
    /\ UNCHANGED <<handler, STORAGE, HUP_STORAGE, WORK_LOCKS, ATTACH_LOCKS, DEADLOCK_FLAGS,
                   elsewhere>>

\* The handler body writes to the store of its live session (the bodies of the
\* first MaxStores events do).
store_add(t) ==
    /\ caller[t].pc = "run"
    /\ ~bsession[caller[t].cur].store
    /\ t <= MaxStores /\ ~bsession[caller[t].cur].expired
    /\ bsession' = [bsession EXCEPT ![caller[t].cur].store = TRUE]
    /\ UNCHANGED <<caller, handler, STORAGE, HUP_STORAGE, WORK_LOCKS, ATTACH_LOCKS, DEADLOCK_FLAGS,
                   elsewhere>>

\* BotSession.suspend up to its await: _hup raises for a session without space
\* tag or expired, else moves it to HUP_STORAGE and clears _awake_signal, which
\* sets the twin _hup_signal.
session_suspend(t) ==
    LET s == caller[t].cur
    IN  /\ caller[t].pc = "run"
        /\ bsession[s].hup_times < MaxHups
        /\ IF ~bsession[s].tag \/ bsession[s].expired
           THEN /\ caller' = [caller EXCEPT ![t].pc = "suspend_raised"]
                /\ UNCHANGED <<bsession, STORAGE, HUP_STORAGE>>
           ELSE IF s \notin STORAGE
           THEN /\ caller' = [caller EXCEPT ![t].pc = "suspend_raised"]
                /\ bsession' = [bsession EXCEPT ![s].hup_times = @ + 1]
                /\ UNCHANGED <<STORAGE, HUP_STORAGE>>
           ELSE /\ caller' = [caller EXCEPT ![t].pc = "hung"]
                /\ bsession' = [bsession EXCEPT ![s].hup_times = @ + 1, ![s].hup = TRUE]
                /\ STORAGE' = STORAGE \ {s}
                /\ HUP_STORAGE' = HUP_STORAGE \cup {s}
        /\ UNCHANGED <<handler, WORK_LOCKS, ATTACH_LOCKS, DEADLOCK_FLAGS, elsewhere>>

\* "await self._awake_signal.wait()" returned: the body goes on.
Roused(t) ==
    /\ caller[t].pc = "hung"
    /\ ~bsession[caller[t].cur].hup
    /\ caller' = [caller EXCEPT ![t].pc = "run"]
    /\ UNCHANGED <<handler, STORAGE, HUP_STORAGE, WORK_LOCKS, ATTACH_LOCKS, DEADLOCK_FLAGS,
                   bsession, elsewhere>>

\* BotSession.destory: BotException for a session without event, else _expire.
destory(t) ==
    LET s == caller[t].cur
        x == _expire(bsession, STORAGE, s)
    IN  /\ caller[t].pc = "run"
        /\ IF event(bsession, s) = 0
           THEN /\ caller' = [caller EXCEPT ![t].pc = "destory_raised"]
                /\ UNCHANGED <<bsession, STORAGE>>
           ELSE /\ caller' = [caller EXCEPT ![t].pc = IF x.raised THEN "destory_raised"
                                                      ELSE "run"]
                /\ bsession' = x.bs
                /\ STORAGE' = x.st
        /\ UNCHANGED <<handler, HUP_STORAGE, WORK_LOCKS, ATTACH_LOCKS, DEADLOCK_FLAGS, elsewhere>>

\* recycle at the end of the body: _free_signal is set, and the session expires
\* unless it is kept alive.
recycle(t) ==
    LET s == caller[t].cur
        freed == [bsession EXCEPT ![s].free = TRUE]
    IN  /\ caller[t].pc \in InBody
        /\ \E alive \in BOOLEAN :
            LET x == IF alive THEN [bs |-> freed, st |-> STORAGE, raised |-> FALSE]
                     ELSE _expire(freed, STORAGE, s)
            IN  /\ caller' = [caller EXCEPT ![t] = IF x.raised
                                                     THEN [DoneCaller EXCEPT !.pc = "recycle_raised"]
                                                     ELSE DoneCaller]
                /\ bsession' = x.bs
                /\ STORAGE' = x.st
        /\ UNCHANGED <<handler, HUP_STORAGE, WORK_LOCKS, ATTACH_LOCKS, DEADLOCK_FLAGS, elsewhere>>

\* register(handler): empty session spaces, free locks, the flag unset.
InitBM ==
    /\ handler \in {h \in [rule : BOOLEAN, wait_flag : BOOLEAN] : h.wait_flag => h.rule}
    /\ STORAGE = {}
    /\ HUP_STORAGE = {}
    /\ WORK_LOCKS = [owner |-> NoTask, q |-> <<>>]
    /\ ATTACH_LOCKS = [owner |-> NoTask, q |-> <<>>]
    /\ DEADLOCK_FLAGS = FALSE
    /\ bsession = [s \in BSessions |-> NoBSession]
    /\ caller = [t \in Callers |-> IdleCaller]
    /\ NoSessions
    /\ NoTwin
    /\ NoUtils

NextBM ==
    \/ \E t \in Callers : try_attach(t)
    \/ \E t \in Callers : AttachLocked(t)
    \/ \E t \in Callers : TasksStart(t)
    \/ \E t \in Callers : TryAttachDone(t)
    \/ \E t \in Callers : get(t)
    \/ \E t \in Callers : GetLocked(t)
    \/ \E t \in Callers : GetWoken(t)
    \/ \E t \in Callers : GetFreed(t)
    \/ \E t \in Callers : make_empty(t)
    \/ \E t \in Callers : store_add(t)
    \/ \E t \in Callers : session_suspend(t)
    \/ \E t \in Callers : Roused(t)
    \/ \E t \in Callers : destory(t)
    \/ \E t \in Callers : recycle(t)

SpecBM == InitBM /\ [][NextBM]_vars

\* A step of the coroutine of event t that has started: it goes on when it can, and
\* a handler body comes to its end (recycle) unless it suspends.
BMProgress(t) ==
    \/ AttachLocked(t)
    \/ TasksStart(t)
    \/ TryAttachDone(t)
    \/ caller[t].pc = "tried" /\ get(t)
    \/ GetLocked(t)
    \/ GetWoken(t)
    \/ GetFreed(t)
    \/ Roused(t)
    \/ recycle(t)

\* The event loop runs every coroutine that can run.
FairSpecBM == SpecBM /\ \A t \in Callers : WF_vars(BMProgress(t))

(***************************************************************************)
(* BotSessionManager under direct calls (session.py 1227-1307): _make,     *)
(* BotSession.suspend up to its await (_hup), _rouse on a session taken    *)
(* from HUP_STORAGE (as __attach calls it), BotSession.destory and recycle, *)
(* on any session made so far and in any order.  caller holds the last     *)
(* call: what was called, on which session, and whether it raised.         *)
(***************************************************************************)
NumOpsSessions == 2
MaxOpsEvents == 2
OpsSessions == 1 .. NumOpsSessions

\* _hup: BotException for a session without space tag or expired; then the time is
\* recorded, the session leaves STORAGE (KeyError when it is not there), enters
\* HUP_STORAGE, and _awake_signal is cleared, which sets the twin _hup_signal.
_hup(bs, st, hst, s) ==
    IF ~bs[s].tag \/ bs[s].expired
    THEN [bs |-> bs, st |-> st, hst |-> hst, raised |-> TRUE]
    ELSE IF s \notin st
    THEN [bs |-> [bs EXCEPT ![s].hup_times = @ + 1], st |-> st, hst |-> hst, raised |-> TRUE]
    ELSE [bs |-> [bs EXCEPT ![s].hup_times = @ + 1, ![s].hup = TRUE],
          st |-> st \ {s}, hst |-> hst \cup {s}, raised |-> FALSE]

\* _rouse: the session leaves HUP_STORAGE, enters STORAGE, and _awake_signal is set.
_rouse(bs, st, hst, s) ==
    [bs |-> [bs EXCEPT ![s].hup = FALSE], st |-> st \cup {s}, hst |-> hst \ {s},
     raised |-> FALSE]

\* The call op on session s ends: the sessions and the two storages are as x gives them.
Ends(op, s, x) ==
    /\ bsession' = x.bs
    /\ STORAGE' = x.st
    /\ HUP_STORAGE' = IF "hst" \in DOMAIN x THEN x.hst ELSE HUP_STORAGE
    /\ caller' = [op |-> op, cur |-> s, raised |-> x.raised]
    /\ UNCHANGED <<handler, WORK_LOCKS, ATTACH_LOCKS, DEADLOCK_FLAGS, elsewhere>>

\* _make(event, responder, handler): the next session, tagged and stored when the
\* handler has a rule.
ops_make(s) ==
    /\ ~bsession[s].made
    /\ \A u \in OpsSessions : u < s => bsession[u].made
    /\ \E e \in Users :
        Ends("_make", s, [bs |-> _make(bsession, s, e, handler.rule),
                          st |-> IF handler.rule THEN STORAGE \cup {s} ELSE STORAGE,
                          raised |-> FALSE])

\* session.suspend(), up to its await.
ops_suspend(s) ==
    /\ bsession[s].made
    /\ bsession[s].hup_times < MaxHups
    /\ Ends("suspend", s, _hup(bsession, STORAGE, HUP_STORAGE, s))

\* __attach found the suspended session s for an event e: append and _rouse.
ops_rouse(s) ==
    /\ s \in HUP_STORAGE
    /\ Len(bsession[s].events) < MaxOpsEvents
    /\ \E e \in Users :
        Ends("_rouse", s, _rouse(Appended(bsession, s, e), STORAGE, HUP_STORAGE, s))

\* session.destory()
ops_destory(s) ==
    /\ bsession[s].made
    /\ Ends("destory", s, IF event(bsession, s) = 0
                          THEN [bs |-> bsession, st |-> STORAGE, raised |-> TRUE]
                          ELSE _expire(bsession, STORAGE, s))

\* recycle(session, alive)
ops_recycle(s) ==
    /\ bsession[s].made
    /\ \E alive \in BOOLEAN :
        LET freed == [bsession EXCEPT ![s].free = TRUE]
        IN  Ends("recycle", s, IF alive THEN [bs |-> freed, st |-> STORAGE, raised |-> FALSE]
                               ELSE _expire(freed, STORAGE, s))

\* get's "session._free_signal.clear()" on the session it returns, live and free.
ops_get(s) ==
    /\ s \in STORAGE /\ bsession[s].free /\ ~bsession[s].expired
    /\ Ends("get", s, [bs |-> [bsession EXCEPT ![s].free = FALSE], st |-> STORAGE,
                       raised |-> FALSE])

InitOps ==
    /\ handler \in {h \in [rule : BOOLEAN, wait_flag : BOOLEAN] : h.wait_flag => h.rule}
    /\ STORAGE = {}
    /\ HUP_STORAGE = {}
    /\ WORK_LOCKS = [owner |-> NoTask, q |-> <<>>]
    /\ ATTACH_LOCKS = [owner |-> NoTask, q |-> <<>>]
    /\ DEADLOCK_FLAGS = FALSE
    /\ bsession = [s \in BSessions |-> NoBSession]
    /\ caller = [op |-> "register", cur |-> NoSession, raised |-> FALSE]
    /\ NoSessions
    /\ NoTwin
    /\ NoUtils

NextOps ==
    \/ \E s \in OpsSessions : ops_make(s)
    \/ \E s \in OpsSessions : ops_suspend(s)
    \/ \E s \in OpsSessions : ops_rouse(s)
    \/ \E s \in OpsSessions : ops_destory(s)
    \/ \E s \in OpsSessions : ops_recycle(s)
    \/ \E s \in OpsSessions : ops_get(s)

SpecOps == InitOps /\ [][NextOps]_vars

(***************************************************************************)
(* AsyncTwinEvent and get_twin_event (src/src/melobot/utils.py 25-55): a   *)
(* pair of Events, each with its own value and its _twin reference, under  *)
(* any sequence of set() and clear() calls on either of them.              *)
(***************************************************************************)
MaxCalls == 4
Twins == {"a", "b"}
Other(x) == IF x = "a" THEN "b" ELSE "a"

\* AsyncTwinEvent() twice: both unset (asyncio.Event starts unset), no _twin yet.
NewPair == [value |-> [x \in Twins |-> FALSE], bound |-> [x \in Twins |-> FALSE]]

\* x.bind(twin): _twin is kept, and the twin alone is cleared if x is set, else set.
bind(p, x) ==
    [p EXCEPT !.bound[x] = TRUE, !.value[Other(x)] = ~p.value[x]]

\* A set() that leaves the twin as it is.
setAlone(p, x) == [p EXCEPT !.value[x] = TRUE]

\* x.set(): x is set and, when a twin is bound, the twin alone is cleared.
set(p, x) ==
    IF p.bound[x] THEN [p EXCEPT !.value[x] = TRUE, !.value[Other(x)] = FALSE]
    ELSE [p EXCEPT !.value[x] = TRUE]

\* x.clear(): x is cleared and, when a twin is bound, the twin alone is set.
clear(p, x) ==
    IF p.bound[x] THEN [p EXCEPT !.value[x] = FALSE, !.value[Other(x)] = TRUE]
    ELSE [p EXCEPT !.value[x] = FALSE]

\* get_twin_event(): a, b = AsyncTwinEvent(), AsyncTwinEvent(); a.bind(b); b.bind(a)
get_twin_event == bind(bind(NewPair, "a"), "b")

twin_set(x) ==
    /\ Len(twin.calls) < MaxCalls
    /\ twin' = [p |-> set(twin.p, x), calls |-> Append(twin.calls, <<x, "set">>)]
    /\ UNCHANGED <<mainvars, obj, bmvars, utilvars>>

twin_clear(x) ==
    /\ Len(twin.calls) < MaxCalls
    /\ twin' = [p |-> clear(twin.p, x), calls |-> Append(twin.calls, <<x, "clear">>)]
    /\ UNCHANGED <<mainvars, obj, bmvars, utilvars>>

InitTwin ==
    /\ twin = [p |-> get_twin_event, calls |-> <<>>]
    /\ NoSessions
    /\ NoManager
    /\ NoUtils

NextTwin ==
    \/ \E x \in Twins : twin_set(x)
    \/ \E x \in Twins : twin_clear(x)

SpecTwin == InitTwin /\ [][NextTwin]_vars

(***************************************************************************)
(* RWContext (src/src/melobot/utils.py 58-112), as AsyncShare.get and set  *)
(* use it: coroutines enter and leave read() and write() regions in any    *)
(* order.  A Semaphore is its value and its FIFO of waiters; release()     *)
(* with a waiter hands the slot to the first one.  An acquire that finds   *)
(* the Semaphore or Lock free does not suspend, so a coroutine runs on to  *)
(* the first acquire that has to wait.                                     *)
(***************************************************************************)
NumProcs == 4
MaxReadLimit == 2
Procs == 1 .. NumProcs
rwframe == <<mainvars, obj, twin, bmvars, di, slots, cool, speed, ipc>>

\* asyncio.Semaphore(n)
Semaphore(n) == [value |-> n, q |-> <<>>]
SemLocked(sem) == sem.value = 0 \/ sem.q # <<>>
SemTaken(sem) == [sem EXCEPT !.value = @ - 1]
SemQueued(sem, p) == [sem EXCEPT !.q = Append(@, p)]
SemReleased(sem) == IF sem.q = <<>> THEN [sem EXCEPT !.value = @ + 1] ELSE [sem EXCEPT !.q = Tail(@)]

\* RWContext(read_limit): no read_semaphore when read_limit is None or 0.
RWContext(read_limit) ==
    [read_limit |-> read_limit,
     write_semaphore |-> Semaphore(1),
     read_semaphore |-> Semaphore(read_limit),
     read_num |-> 0,
     read_num_lock |-> [owner |-> NoTask, q |-> <<>>],
     pc |-> [p \in Procs |-> "out"]]

HasReadSemaphore(rw) == rw.read_limit # 0

\* A reader that never takes the write semaphore.
NeedsWriteSemaphoreNever(n) == FALSE

\* "if self.read_num == 0": the first reader takes the write semaphore.
NeedsWriteSemaphore(n) == n = 0

\* read(), under read_num_lock, from "self.read_num += 1" to the yield.
Counted(rw, p) ==
    [rw EXCEPT !.read_num = @ + 1, !.read_num_lock = Released(@), !.pc[p] = "reading"]

\* read(), under read_num_lock: the first reader acquires write_semaphore or waits for it.
Locked1(rw, p) ==
    IF ~NeedsWriteSemaphore(rw.read_num) THEN Counted(rw, p)
    ELSE IF SemLocked(rw.write_semaphore)
    THEN [rw EXCEPT !.write_semaphore = SemQueued(@, p), !.pc[p] = "r_write_semaphore"]
    ELSE Counted([rw EXCEPT !.write_semaphore = SemTaken(@)], p)

\* read(): "async with self.read_num_lock" on entry.
Entering(rw, p) ==
    IF Locked(rw.read_num_lock)
    THEN [rw EXCEPT !.read_num_lock.q = Append(@, p), !.pc[p] = "r_read_num_lock"]
    ELSE Locked1([rw EXCEPT !.read_num_lock.owner = p], p)

\* read() from its start: the read semaphore, if there is one, is acquired or waited for.
Read(rw, p) ==
    IF ~HasReadSemaphore(rw) THEN Entering(rw, p)
    ELSE IF SemLocked(rw.read_semaphore)
    THEN [rw EXCEPT !.read_semaphore = SemQueued(@, p), !.pc[p] = "r_read_semaphore"]
    ELSE Entering([rw EXCEPT !.read_semaphore = SemTaken(@)], p)

\* read(), the finally block under read_num_lock.
Left(rw, p) ==
    LET n == rw.read_num - 1
    IN  [rw EXCEPT !.read_num = n,
                   !.write_semaphore = IF n = 0 THEN SemReleased(@) ELSE @,
                   !.read_semaphore = IF HasReadSemaphore(rw) THEN SemReleased(@) ELSE @,
                   !.read_num_lock = Released(@),
                   !.pc[p] = "out"]

\* read(), the finally block: "async with self.read_num_lock".
Leaving(rw, p) ==
    IF Locked(rw.read_num_lock)
    THEN [rw EXCEPT !.read_num_lock.q = Append(@, p), !.pc[p] = "x_read_num_lock"]
    ELSE Left([rw EXCEPT !.read_num_lock.owner = p], p)

\* write() from its start.
Write(rw, p) ==
    IF SemLocked(rw.write_semaphore)
    THEN [rw EXCEPT !.write_semaphore = SemQueued(@, p), !.pc[p] = "w_write_semaphore"]
    ELSE [rw EXCEPT !.write_semaphore = SemTaken(@), !.pc[p] = "writing"]

\* "async with rwc.read():" is reached.
read(p) ==
    /\ rwc.pc[p] = "out"
    /\ rwc' = Read(rwc, p)
    /\ UNCHANGED rwframe

\* "async with rwc.write():" is reached.
write(p) ==
    /\ rwc.pc[p] = "out"
    /\ rwc' = Write(rwc, p)
    /\ UNCHANGED rwframe

\* A coroutine that waited is given what it waited for and runs on.
Granted(p) ==
    /\ rwc' = CASE rwc.pc[p] = "r_read_semaphore" /\ ~InSeq(rwc.read_semaphore.q, p) ->
                        Entering(rwc, p)
                [] rwc.pc[p] = "r_read_num_lock" /\ rwc.read_num_lock.owner = p ->
                        Locked1(rwc, p)
                [] rwc.pc[p] = "r_write_semaphore" /\ ~InSeq(rwc.write_semaphore.q, p) ->
                        Counted(rwc, p)
                [] rwc.pc[p] = "x_read_num_lock" /\ rwc.read_num_lock.owner = p ->
                        Left(rwc, p)
                [] rwc.pc[p] = "w_write_semaphore" /\ ~InSeq(rwc.write_semaphore.q, p) ->
                        [rwc EXCEPT !.pc[p] = "writing"]
                [] OTHER -> rwc
    /\ rwc' # rwc
    /\ UNCHANGED rwframe

\* The body of a read region ends.
read_exit(p) ==
    /\ rwc.pc[p] = "reading"
    /\ rwc' = Leaving(rwc, p)
    /\ UNCHANGED rwframe

\* The body of a write region ends.
write_exit(p) ==
    /\ rwc.pc[p] = "writing"
    /\ rwc' = [rwc EXCEPT !.write_semaphore = SemReleased(@), !.pc[p] = "out"]
    /\ UNCHANGED rwframe

InitRW ==
    /\ rwc \in {RWContext(n) : n \in 0 .. MaxReadLimit}
    /\ di = 0 /\ slots = 0 /\ cool = 0 /\ speed = 0 /\ ipc = 0
    /\ NoSessions
    /\ NoTwin
    /\ NoManager

NextRW ==
    \/ \E p \in Procs : read(p)
    \/ \E p \in Procs : write(p)
    \/ \E p \in Procs : Granted(p)
    \/ \E p \in Procs : read_exit(p)
    \/ \E p \in Procs : write_exit(p)

SpecRW == InitRW /\ [][NextRW]_vars

(***************************************************************************)
(* Depends and inject_deps (src/src/melobot/_di.py 41-105, 254-276): one   *)
(* injected callback whose parameter defaults are Depends objects, called  *)
(* by several coroutines at once.  D has a getter (its factory), R is      *)
(* Depends(D) and RR is Depends(R); none has a sub_getter.  The factory    *)
(* returns the number of its run, so that two runs give two values.        *)
(* "await self.getter()" is where a call can be overtaken by another one;  *)
(* everything else of fulfill and _get runs on without suspension unless   *)
(* the lock of a cached Depends is taken.                                  *)
(***************************************************************************)
NumCalls == 2
MaxParams == 2
Calls == 1 .. NumCalls
Deps == {"D", "R", "RR"}
VOID == 0
diframe == <<mainvars, obj, twin, bmvars, rwc, slots, cool, speed, ipc>>

\* Depends.__init__: self.getter for a callable, self.ref for a Depends.
HasGetter(d) == d = "D"
Ref(d) == IF d = "RR" THEN "R" ELSE "D"

\* The parameter defaults of the callback: every sequence of Depends objects.
ParamLists == UNION {[1 .. n -> Deps] : n \in 1 .. MaxParams}

IdleCall ==
    [stack |-> <<>>, dep_scope |-> [d \in Deps |-> VOID], args |-> <<>>,
     fulfilled |-> [d \in Deps |-> 0], waited |-> FALSE]

Injected(cache, params) ==
    [cache |-> cache, params |-> params,
     cached |-> [d \in Deps |-> VOID],
     lock |-> [d \in Deps |-> [owner |-> NoTask, q |-> <<>>]],
     runs |-> 0,
     call |-> [c \in Calls |-> IdleCall]]

Top(x, c) == x.call[c].stack[Len(x.call[c].stack)]
WithTop(x, c, f) == [x EXCEPT !.call[c].stack[Len(x.call[c].stack)] = f]

\* A test of the cache that never finds a value.
NotVoidNever(v) == FALSE

\* "is not VoidType.VOID"
NotVoid(v) == v # VOID

RECURSIVE Fulfilled(_, _, _)
\* The _get of the Depends that call c has on top returned v: under the lock
\* the value is cached if none is yet and the cached one taken, the lock is
\* released, dep_scope[self] is set and the value goes to the caller, which is
\* the _get of the referring Depends or the loop of the wrapper.
Fulfilled(x, c, v) ==
    LET f == Top(x, c)
        val == IF f.held /\ NotVoid(x.cached[f.d]) THEN x.cached[f.d] ELSE v
        x1 == [x EXCEPT !.cached[f.d] = IF f.held THEN val ELSE @,
                        !.lock[f.d] = IF f.held THEN Released(@) ELSE @,
                        !.call[c].dep_scope[f.d] = val,
                        !.call[c].stack = SubSeq(@, 1, Len(@) - 1)]
    IN  IF x1.call[c].stack = <<>>
        THEN [x1 EXCEPT !.call[c].args = Append(@, val)]
        ELSE Fulfilled(x1, c, val)

RECURSIVE Fulfill(_, _, _)
RECURSIVE Get(_, _)
\* _get of the Depends on top: the getter is awaited, or the value of the ref
\* is taken from dep_scope, or the ref is fulfilled.
Get(x, c) ==
    LET f == Top(x, c)
    IN  IF HasGetter(f.d)
        THEN [WithTop(x, c, [f EXCEPT !.pc = "getter", !.val = x.runs + 1]) EXCEPT !.runs = @ + 1]
        ELSE IF NotVoid(x.call[c].dep_scope[Ref(f.d)])
        THEN Fulfilled(x, c, x.call[c].dep_scope[Ref(f.d)])
        ELSE Fulfill(WithTop(x, c, [f EXCEPT !.pc = "ref"]), c, Ref(f.d))

\* d.fulfill(dep_scope) in call c, up to the first await that suspends.
Fulfill(x, c, d) ==
    LET f == [d |-> d, pc |-> "new", held |-> FALSE, val |-> VOID]
        x1 == [x EXCEPT !.call[c].stack = Append(@, f), !.call[c].fulfilled[d] = @ + 1]
    IN  IF ~x.cache[d] THEN Get(x1, c)
        ELSE IF NotVoid(x.cached[d]) THEN Fulfilled(x1, c, x.cached[d])
        ELSE IF Locked(x.lock[d])
        THEN [WithTop(x1, c, [f EXCEPT !.pc = "lock"])
                EXCEPT !.lock[d].q = Append(@, c), !.call[c].waited = TRUE]
        ELSE Get([WithTop(x1, c, [f EXCEPT !.held = TRUE]) EXCEPT !.lock[d].owner = c], c)

\* The wrapper's loops over the bound arguments: the next Depends is fulfilled.
NextArg(c) ==
    /\ di.call[c].stack = <<>>
    /\ Len(di.call[c].args) < Len(di.params)
    /\ di' = Fulfill(di, c, di.params[Len(di.call[c].args) + 1])
    /\ UNCHANGED diframe

\* "await self.getter()" returned.
GetterDone(c) ==
    /\ di.call[c].stack # <<>>
    /\ Top(di, c).pc = "getter"
    /\ di' = Fulfilled(di, c, Top(di, c).val)
    /\ UNCHANGED diframe

\* "async with self._lock" is entered after a wait: the cache is tested again.
LockEntered(c) ==
    /\ di.call[c].stack # <<>>
    /\ Top(di, c).pc = "lock"
    /\ di.lock[Top(di, c).d].owner = c
    /\ LET x == WithTop(di, c, [Top(di, c) EXCEPT !.held = TRUE])
       IN  di' = IF NotVoid(di.cached[Top(di, c).d]) THEN Fulfilled(x, c, di.cached[Top(di, c).d])
                 ELSE Get(x, c)
    /\ UNCHANGED diframe

InitDI ==
    /\ di \in {Injected(cache, params) : cache \in [Deps -> BOOLEAN], params \in ParamLists}
    /\ rwc = 0 /\ slots = 0 /\ cool = 0 /\ speed = 0 /\ ipc = 0
    /\ NoSessions
    /\ NoTwin
    /\ NoManager

NextDI ==
    \/ \E c \in Calls : NextArg(c)
    \/ \E c \in Calls : GetterDone(c)
    \/ \E c \in Calls : LockEntered(c)

SpecDI == InitDI /\ [][NextDI]_vars

(***************************************************************************)
(* AutoDepends and _init_auto_deps (src/src/melobot/_di.py 108-251): one   *)
(* function is wrapped by inject_deps and then called once.  Its           *)
(* parameters are positional-or-keyword without defaults of their own.     *)
(* The type tests is_subhint and is_type and the four contexts are not in  *)
(* src/; they are modelled over a small class hierarchy: a hint is the set *)
(* of the classes of a union, and a value is its class and where it came   *)
(* from.                                                                   *)
(***************************************************************************)
MaxAutoParams == 2
Classes ==
    {"Logger", "SubLogger", "Store", "Rule", "None", "Bot", "Adapter",
     "Event", "T1", "T2", "BotEvent", "int"}

\* The classes a class is an instance of: itself and its bases.
Supers(a) ==
    {a} \cup (CASE a = "SubLogger" -> {"Logger"}
                [] a \in {"T1", "T2"} -> {"Event"}
                [] a = "BotEvent" -> {"Bot", "Event"}
                [] OTHER -> {})

is_subhint(hint, base) == \A a \in hint : \E b \in base : b \in Supers(a)
is_type(cls, hint) == \E a \in hint : a \in Supers(cls)
isinstance(cls, t) == t \in Supers(cls)

Hints == {{a} : a \in Classes} \cup {{"Rule", "None"}, {"T1", "T2"}}
\* No metadata, the two tags, or two metadata items in one Annotated.
Metas == {"none", "CustomLogger", "Exclude", "two"}
\* The types of the Exclude tag.
ExcludeTypes == {"T1", "None"}
AutoParams ==
    [annotated : {TRUE}, hint : Hints, meta : Metas]
        \cup {[annotated |-> FALSE, hint |-> {}, meta |-> "none"]}
AutoParamLists == UNION {[1 .. n -> AutoParams] : n \in 1 .. MaxAutoParams}

\* What the contexts hold while the call runs.
Contexts ==
    [logger : {"Logger", "SubLogger"}, store : {"Store"}, rule : {"Rule", "None"},
     bot : {"Bot"}, adapter : {"Adapter"}, event : {"T1", "T2"}]

NoDep == [arg |-> 0, hint |-> {}, meta |-> "none", src |-> "none"]

\* A chain that looks for the event before the bot.
orig_getterEventFirst(hint, meta) ==
    IF meta = "two" THEN "DependInitError"
    ELSE IF meta = "CustomLogger" THEN "logger"
    ELSE IF is_subhint(hint, {"Logger"}) THEN "logger"
    ELSE IF is_subhint(hint, {"Store"}) THEN "store"
    ELSE IF is_subhint(hint, {"Rule", "None"}) THEN "rule"
    ELSE IF is_subhint(hint, {"Event"}) THEN "event"
    ELSE IF is_subhint(hint, {"Bot"}) THEN "bot"
    ELSE IF is_subhint(hint, {"Adapter"}) THEN "adapter"
    ELSE "DependInitError"

\* AutoDepends.__init__: the context the getter reads, or DependInitError.
orig_getter(hint, meta) ==
    IF meta = "two" THEN "DependInitError"
    ELSE IF meta = "CustomLogger" THEN "logger"
    ELSE IF is_subhint(hint, {"Logger"}) THEN "logger"
    ELSE IF is_subhint(hint, {"Store"}) THEN "store"
    ELSE IF is_subhint(hint, {"Rule", "None"}) THEN "rule"
    ELSE IF is_subhint(hint, {"Bot"}) THEN "bot"
    ELSE IF is_subhint(hint, {"Adapter"}) THEN "adapter"
    ELSE IF is_subhint(hint, {"Event"}) THEN "event"
    ELSE "DependInitError"

AutoDepends(name, hint, meta) ==
    [arg |-> name, hint |-> hint, meta |-> meta, src |-> orig_getter(hint, meta)]

RECURSIVE AutoVals(_, _, _)
\* The loop of _init_auto_deps from parameter i on: the list vals, and whether
\* DependInitError was raised because a parameter cannot be injected and
\* allow_pass_arg is false.
AutoVals(params, allow_pass_arg, i) ==
    IF i > Len(params) THEN [raised |-> FALSE, vals |-> <<>>]
    ELSE LET later == AutoVals(params, allow_pass_arg, i + 1)
             dep == AutoDepends(i, params[i].hint, params[i].meta)
         IN  IF ~params[i].annotated THEN later
             ELSE IF dep.src = "DependInitError"
             THEN IF allow_pass_arg THEN later ELSE [raised |-> TRUE, vals |-> <<>>]
             ELSE [later EXCEPT !.vals = IF later.raised THEN <<>> ELSE <<dep>> \o @]

\* func.__defaults__ = tuple(vals): the defaults of a function are those of
\* its last parameters.
Defaults(params, vals) ==
    [i \in 1 .. Len(params) |->
        IF i > Len(params) - Len(vals) THEN vals[i - (Len(params) - Len(vals))] ELSE NoDep]

\* The fetched value is of one of the types of the Exclude tag.
Excluded(cls) == \E t \in ExcludeTypes : isinstance(cls, t)

\* A fulfill that hands on whatever the context holds.
AutoFulfillUnchecked(dep, ctx) ==
    [raised |-> FALSE, val |-> [cls |-> ctx[dep.src], src |-> dep.src]]

\* AutoDepends.fulfill: the value, or the DependNotMatched it raises.
AutoFulfill(dep, ctx) ==
    LET val == [cls |-> ctx[dep.src], src |-> dep.src]
        exc == [raised |-> TRUE, func_name |-> "func", arg_name |-> dep.arg,
                real_type |-> val.cls, hint |-> dep.hint]
        ret(v) == [raised |-> FALSE, val |-> v]
    IN  IF dep.meta = "Exclude" /\ Excluded(val.cls) THEN exc
        ELSE IF dep.meta = "CustomLogger"
        THEN IF ~is_type(val.cls, dep.hint) THEN ret([cls |-> "Custom", src |-> "getter"])
             ELSE ret(val)
        ELSE IF dep.meta # "Exclude" /\ is_subhint(dep.hint, {"Logger"}) THEN ret(val)
        ELSE IF is_type(val.cls, dep.hint) THEN ret(val)
        ELSE exc

Unwrapped(params, pass_arg, ctx) ==
    [params |-> params, pass_arg |-> pass_arg, ctx |-> ctx, pc |-> "unwrapped",
     defaults |-> <<>>, given |-> {}, args |-> <<>>, exc |-> NoDep]

\* inject_deps(injected, pass_arg) of a function.
Wrap ==
    /\ di.pc = "unwrapped"
    /\ LET made == AutoVals(di.params, di.pass_arg, 1)
       IN  di' = IF made.raised
                 THEN [di EXCEPT !.pc = "DependInitError"]
                 ELSE [di EXCEPT !.pc = "wrapped", !.defaults = Defaults(di.params, made.vals)]
    /\ UNCHANGED diframe

\* The first dependency among the arguments, in their order, that raises.
FirstRaised(bound, ctx) ==
    LET bad == {i \in DOMAIN bound : bound[i].src # "caller" /\ AutoFulfill(bound[i], ctx).raised}
    IN  IF bad = {} THEN 0 ELSE CHOOSE i \in bad : \A j \in bad : i <= j

\* wrapped(...) with the parameters of the set given supplied by the caller:
\* the arguments are bound, every Depends among them is fulfilled in order,
\* and the function is called.
call(given) ==
    /\ di.pc = "wrapped"
    /\ given \subseteq 1 .. Len(di.params)
    /\ LET n == Len(di.params)
           bound == [i \in 1 .. n |->
                        IF i \in given THEN [NoDep EXCEPT !.src = "caller"] ELSE di.defaults[i]]
           bad == FirstRaised(bound, di.ctx)
       IN  di' = IF \E i \in 1 .. n : bound[i] = NoDep
                 THEN [di EXCEPT !.pc = "DependBindError", !.given = given]
                 ELSE IF bad # 0
                 THEN [di EXCEPT !.pc = "DependNotMatched", !.given = given,
                                 !.exc = AutoFulfill(bound[bad], di.ctx)]
                 ELSE [di EXCEPT !.pc = "body", !.given = given,
                                 !.args = [i \in 1 .. n |->
                                     IF i \in given THEN [cls |-> "int", src |-> "caller"]
                                     ELSE AutoFulfill(bound[i], di.ctx).val]]
    /\ UNCHANGED diframe

InitAuto ==
    /\ di \in {Unwrapped(params, pass_arg, ctx) :
                 params \in AutoParamLists, pass_arg \in BOOLEAN, ctx \in Contexts}
    /\ rwc = 0 /\ slots = 0 /\ cool = 0 /\ speed = 0 /\ ipc = 0
    /\ NoSessions
    /\ NoTwin
    /\ NoManager

NextAuto ==
    \/ Wrap
    \/ \E given \in SUBSET (1 .. MaxAutoParams) : call(given)

SpecAuto == InitAuto /\ [][NextAuto]_vars

(***************************************************************************)
(* The lock and semaphore decorators (src/src/melobot/utils.py 172-200,    *)
(* 263-292): one decorated function called by several coroutines.  The     *)
(* asyncio.Lock and asyncio.Semaphore are modelled with their lists of     *)
(* waiters: a waiter stays in the list, marked done, from the moment it is *)
(* woken until it runs again.                                              *)
(***************************************************************************)
MaxValue == 2
slotframe == <<mainvars, obj, twin, bmvars, rwc, di, cool, speed, ipc>>

\* asyncio.Lock() and asyncio.Semaphore(value); a lock has value 1 while free.
Primitive(kind, value) == [kind |-> kind, value |-> value, waiters |-> <<>>]

\* A test that never finds the primitive taken.
lockedNever(a) == FALSE

\* Lock.locked() and Semaphore.locked()
locked(a) ==
    IF a.kind = "lock" THEN a.value = 0
    ELSE a.value = 0 \/ a.waiters # <<>>

\* acquire() returns at once: the lock is free and nobody waits for it, or the
\* semaphore is not locked().
Free(a) == a.value # 0 /\ a.waiters = <<>>

\* _wake_up_first and _wake_up_next: the first waiter is woken if it is not
\* yet; the semaphore moves on to the first that is not and takes its unit.
WakeUp(a) ==
    LET fresh == {i \in DOMAIN a.waiters : ~a.waiters[i].done}
        first == CHOOSE i \in fresh : \A j \in fresh : i <= j
    IN  IF a.kind = "lock"
        THEN IF a.waiters = <<>> THEN a ELSE [a EXCEPT !.waiters[1].done = TRUE]
        ELSE IF fresh = {} THEN a
        ELSE [a EXCEPT !.waiters[first].done = TRUE, !.value = @ - 1]

\* release()
release(a) == WakeUp([a EXCEPT !.value = @ + 1])

\* The rest of acquire() for the waiter p that was woken: it leaves the list;
\* the lock is taken, the semaphore wakes the next waiter if units are left.
Acquired(a, p) ==
    LET left == [a EXCEPT !.waiters = SelectSeq(@, LAMBDA w : w.p # p)]
    IN  IF a.kind = "lock" THEN [left EXCEPT !.value = 0]
        ELSE IF left.value > 0 THEN WakeUp(left) ELSE left

IsWoken(a, p) == \E i \in DOMAIN a.waiters : a.waiters[i].p = p /\ a.waiters[i].done

Decorated(kind, value, callback) ==
    [a |-> Primitive(kind, value), limit |-> value, callback |-> callback,
     call |-> [p \in Procs |-> [pc |-> "idle", full |-> FALSE, waited |-> FALSE, res |-> "none"]]]

Executing(x) == {p \in Procs : x.call[p].pc = "func"}

\* wrapped_func up to its first await that suspends.  The field full notes
\* whether as many executions as the limit were in progress.
wrapped_func(p) ==
    /\ slots.call[p].pc = "idle"
    /\ LET x == [slots EXCEPT !.call[p].full = Cardinality(Executing(slots)) = slots.limit]
       IN  slots' = IF slots.callback /\ locked(slots.a)
                    THEN [x EXCEPT !.call[p].pc = "callback"]
                    ELSE IF Free(slots.a)
                    THEN [x EXCEPT !.a.value = @ - 1, !.call[p].pc = "func"]
                    ELSE [x EXCEPT !.a.waiters = Append(@, [p |-> p, done |-> FALSE]),
                                   !.call[p].pc = "waiting", !.call[p].waited = TRUE]
    /\ UNCHANGED slotframe

\* The waiter runs again and enters the body of the "async with".
Entered(p) ==
    /\ slots.call[p].pc = "waiting"
    /\ IsWoken(slots.a, p)
    /\ slots' = [slots EXCEPT !.a = Acquired(@, p), !.call[p].pc = "func"]
    /\ UNCHANGED slotframe

\* The function returns: the "async with" is left and its value is returned.
FuncReturned(p) ==
    /\ slots.call[p].pc = "func"
    /\ slots' = [slots EXCEPT !.a = release(@), !.call[p].pc = "done", !.call[p].res = "func"]
    /\ UNCHANGED slotframe

\* The callback returns and its value is returned.
CallbackReturned(p) ==
    /\ slots.call[p].pc = "callback"
    /\ slots' = [slots EXCEPT !.call[p].pc = "done", !.call[p].res = "callback"]
    /\ UNCHANGED slotframe

InitSlots ==
    /\ slots \in {Decorated("lock", 1, cb) : cb \in BOOLEAN}
                    \cup {Decorated("semaphore", n, cb) : n \in 1 .. MaxValue, cb \in BOOLEAN}
    /\ rwc = 0 /\ di = 0 /\ cool = 0 /\ speed = 0 /\ ipc = 0
    /\ NoSessions
    /\ NoTwin
    /\ NoManager

NextSlots ==
    \/ \E p \in Procs : wrapped_func(p)
    \/ \E p \in Procs : Entered(p)
    \/ \E p \in Procs : FuncReturned(p)
    \/ \E p \in Procs : CallbackReturned(p)

SpecSlots == InitSlots /\ [][NextSlots]_vars

(***************************************************************************)
(* The cooldown decorator (src/src/melobot/utils.py 203-260): one          *)
(* decorated function called by several coroutines, with time.perf_counter *)
(* as a clock of whole ticks.  asyncio.sleep(t) ends t ticks later or      *)
(* after that.                                                             *)
(***************************************************************************)
NumCoolCalls == 3
MaxInterval == 2
MaxTime == 4
CoolCalls == 1 .. NumCoolCalls
coolframe == <<mainvars, obj, twin, bmvars, rwc, di, slots, speed, ipc>>
Never == 0 - 1

IdleCool ==
    [pc |-> "idle", sit |-> "none", held |-> FALSE, elapsed |-> Never, arg |-> Never,
     wake |-> Never, since |-> Never, res |-> "none"]

\* cooldown(busy_callback, cd_callback, interval) at time 0:
\* pre_finish_t = time.perf_counter() - interval - 1.
Cooldown(busy_callback, cd_callback, interval) ==
    [busy_callback |-> busy_callback, cd_callback |-> cd_callback, interval |-> interval,
     alock |-> Primitive("lock", 1), pre_finish_t |-> 0 - interval - 1, now |-> 0,
     call |-> [p \in CoolCalls |-> IdleCool]]

\* A test that always finds the cooling over.
CooledAlways(duration, interval) == TRUE

\* "if duration > interval"
Cooled(duration, interval) == duration > interval

CoolExecuting(x) == {p \in CoolCalls : x.call[p].pc = "func"}

\* The body of "async with alock" for call p up to its first await.
CoolBody(x, p) ==
    LET duration == x.now - x.pre_finish_t
        remain_t == x.interval - duration
        y == [x EXCEPT !.call[p].elapsed = duration]
    IN  IF Cooled(duration, x.interval)
        THEN [y EXCEPT !.call[p].pc = "func", !.call[p].since = duration]
        ELSE IF x.cd_callback
        THEN [y EXCEPT !.call[p].pc = "cd_callback", !.call[p].arg = remain_t]
        ELSE [y EXCEPT !.call[p].pc = "sleep", !.call[p].wake = x.now + remain_t]

\* What a call finds when it arrives: an execution of the function running,
\* the cooling period after the last one, or neither.
Situation(x) ==
    IF CoolExecuting(x) # {} THEN "running"
    ELSE IF x.now - x.pre_finish_t < x.interval THEN "cooling"
    ELSE "free"

\* wrapped_func up to its first await that suspends.
cool_wrapped_func(p) ==
    /\ cool.call[p].pc = "idle"
    /\ LET x == [cool EXCEPT !.call[p].sit = Situation(cool),
                             !.call[p].held = locked(cool.alock)]
       IN  cool' = IF cool.busy_callback /\ locked(cool.alock)
                   THEN [x EXCEPT !.call[p].pc = "busy_callback"]
                   ELSE IF Free(cool.alock)
                   THEN CoolBody([x EXCEPT !.alock.value = 0], p)
                   ELSE [x EXCEPT !.alock.waiters = Append(@, [p |-> p, done |-> FALSE]),
                                  !.call[p].pc = "waiting"]
    /\ UNCHANGED coolframe

\* A call that waited for the lock enters the "async with".
CoolEntered(p) ==
    /\ cool.call[p].pc = "waiting"
    /\ IsWoken(cool.alock, p)
    /\ cool' = CoolBody([cool EXCEPT !.alock = Acquired(@, p)], p)
    /\ UNCHANGED coolframe

\* asyncio.sleep(remain_t) is over: the function is called.
Slept(p) ==
    /\ cool.call[p].pc = "sleep"
    /\ cool.now >= cool.call[p].wake
    /\ cool' = [cool EXCEPT !.call[p].pc = "func",
                            !.call[p].since = cool.now - cool.pre_finish_t]
    /\ UNCHANGED coolframe

\* The function returns: pre_finish_t is set and the lock released.
CoolFuncReturned(p) ==
    /\ cool.call[p].pc = "func"
    /\ cool' = [cool EXCEPT !.pre_finish_t = cool.now, !.alock = release(@),
                            !.call[p].pc = "done", !.call[p].res = "func"]
    /\ UNCHANGED coolframe

\* cd_callback returns: the lock is released.
CdCallbackReturned(p) ==
    /\ cool.call[p].pc = "cd_callback"
    /\ cool' = [cool EXCEPT !.alock = release(@),
                            !.call[p].pc = "done", !.call[p].res = "cd_callback"]
    /\ UNCHANGED coolframe

BusyCallbackReturned(p) ==
    /\ cool.call[p].pc = "busy_callback"
    /\ cool' = [cool EXCEPT !.call[p].pc = "done", !.call[p].res = "busy_callback"]
    /\ UNCHANGED coolframe

\* time.perf_counter() moves on.
CoolTick ==
    /\ cool.now < MaxTime
    /\ cool' = [cool EXCEPT !.now = @ + 1]
    /\ UNCHANGED coolframe

InitCool ==
    /\ cool \in {Cooldown(b, c, i) : b \in BOOLEAN, c \in BOOLEAN, i \in 1 .. MaxInterval}
    /\ rwc = 0 /\ di = 0 /\ slots = 0 /\ speed = 0 /\ ipc = 0
    /\ NoSessions
    /\ NoTwin
    /\ NoManager

NextCool ==
    \/ \E p \in CoolCalls : cool_wrapped_func(p)
    \/ \E p \in CoolCalls : CoolEntered(p)
    \/ \E p \in CoolCalls : Slept(p)
    \/ \E p \in CoolCalls : CoolFuncReturned(p)
    \/ \E p \in CoolCalls : CdCallbackReturned(p)
    \/ \E p \in CoolCalls : BusyCallbackReturned(p)
    \/ CoolTick

SpecCool == InitCool /\ [][NextCool]_vars

(***************************************************************************)
(* The speedlimit decorator (src/src/melobot/utils.py 328-424): one        *)
(* decorated function called by several coroutines, on the same clock of   *)
(* whole ticks.  A task made by asyncio.create_task starts in the tick in  *)
(* which it is made.                                                       *)
(***************************************************************************)
NumSpeedCalls == 3
MaxLimit == 2
MaxDuration == 2
SpeedCalls == 1 .. NumSpeedCalls
speedframe == <<mainvars, obj, twin, bmvars, rwc, di, slots, cool, ipc>>

IdleSpeed == [pc |-> "idle", over |-> FALSE, wake |-> Never, started |-> Never, res |-> "none"]

\* speedlimit(callback, limit, duration) at time 0: called_num = 0 and
\* min_start = time.perf_counter().
Speedlimit(callback, limit, duration) ==
    [callback |-> callback, limit |-> limit, duration |-> duration,
     called_num |-> 0, min_start |-> 0, now |-> 0,
     call |-> [p \in SpeedCalls |-> IdleSpeed]]

\* result_set(func, fut, delay): a positive delay is slept and the call made
\* again; otherwise the function runs now.
result_set(x, p, delay) ==
    IF delay > 0
    THEN [x EXCEPT !.call[p].pc = "sleep", !.call[p].wake = x.now + delay]
    ELSE [x EXCEPT !.call[p].pc = "func", !.call[p].started = x.now]

\* "if passed_time <= duration"
InWindow(passed_time, duration) == passed_time <= duration

\* _wrapped_func for call p.
_wrapped_func(x, p) ==
    LET passed_time == x.now - x.min_start
    IN  IF InWindow(passed_time, x.duration)
        THEN IF x.called_num < x.limit
             THEN result_set([x EXCEPT !.called_num = @ + 1], p, Never)
             ELSE IF x.callback
             THEN [x EXCEPT !.call[p].pc = "callback"]
             ELSE result_set(x, p, x.duration - passed_time)
        ELSE result_set([x EXCEPT !.called_num = 1, !.min_start = x.now], p, Never)

\* Whether a call made now is over the limit of the running window.
OverLimit(x) == x.now - x.min_start <= x.duration /\ x.called_num >= x.limit

\* wrapped_func: the call arrives.
speed_wrapped_func(p) ==
    /\ speed.call[p].pc = "idle"
    /\ speed' = _wrapped_func([speed EXCEPT !.call[p].over = OverLimit(speed)], p)
    /\ UNCHANGED speedframe

\* asyncio.sleep(delay) is over: result_set calls _wrapped_func again.
SpeedSlept(p) ==
    /\ speed.call[p].pc = "sleep"
    /\ speed.now >= speed.call[p].wake
    /\ speed' = _wrapped_func(speed, p)
    /\ UNCHANGED speedframe

\* The function returns and the future gets its value.
SpeedFuncReturned(p) ==
    /\ speed.call[p].pc = "func"
    /\ speed' = [speed EXCEPT !.call[p].pc = "done", !.call[p].res = "func"]
    /\ UNCHANGED speedframe

\* The callback returns and the future gets its value.
SpeedCallbackReturned(p) ==
    /\ speed.call[p].pc = "callback"
    /\ speed' = [speed EXCEPT !.call[p].pc = "done", !.call[p].res = "callback"]
    /\ UNCHANGED speedframe

SpeedTick ==
    /\ speed.now < MaxTime
    /\ speed' = [speed EXCEPT !.now = @ + 1]
    /\ UNCHANGED speedframe

InitSpeed ==
    /\ speed \in {Speedlimit(cb, l, d) : cb \in BOOLEAN, l \in 1 .. MaxLimit, d \in 1 .. MaxDuration}
    /\ rwc = 0 /\ di = 0 /\ slots = 0 /\ cool = 0 /\ ipc = 0
    /\ NoSessions
    /\ NoTwin
    /\ NoManager

NextSpeed ==
    \/ \E p \in SpeedCalls : speed_wrapped_func(p)
    \/ \E p \in SpeedCalls : SpeedSlept(p)
    \/ \E p \in SpeedCalls : SpeedFuncReturned(p)
    \/ \E p \in SpeedCalls : SpeedCallbackReturned(p)
    \/ SpeedTick

SpecSpeed == InitSpeed /\ [][NextSpeed]_vars

(***************************************************************************)
(* Shares and the IPCManager (src/src/melobot/plugin/ipc.py): the shares   *)
(* made so far, the manager's table, and the outcome of the last           *)
(* operation.  AsyncShare and SyncShare have the same rules; one class is  *)
(* modelled.  A name is the sequence of its characters.                    *)
(***************************************************************************)
MaxShares == 2
Plugins == {"p", "q"}
Names == {<<"a">>, <<"b">>, <<"_", "a">>, <<>>}
ipcframe == <<mainvars, obj, twin, bmvars, rwc, di, slots, cool, speed>>
NoShare == 0

\* str.startswith("_")
startswith(name) == Len(name) > 0 /\ name[1] = "_"

\* IPCManager.__init__ with no share made yet; last is the last operation,
\* its arguments and its outcome.
IPCManager ==
    [objs |-> <<>>, keys |-> {}, _shares |-> [pl \in Plugins |-> [n \in Names |-> NoShare]],
     last |-> [op |-> "none", plugin |-> "none", name |-> <<>>, share |-> NoShare,
               raised |-> FALSE, ret |-> NoShare]]

Outcome(op, plugin, name, share, raised, ret) ==
    [op |-> op, plugin |-> plugin, name |-> name, share |-> share, raised |-> raised, ret |-> ret]

\* AsyncShare.__init__: BotIpcError for a name that starts with "_" and for a
\* static share with a callback; then there is no share.
Made(x, name, reflector, callabck, static) ==
    IF startswith(name) \/ (static /\ callabck)
    THEN [x EXCEPT !.last = Outcome("AsyncShare", "none", name, NoShare, TRUE, NoShare)]
    ELSE [x EXCEPT !.objs = Append(@, [name |-> name, reflect |-> reflector,
                                       callback |-> callabck, static |-> static]),
                   !.last = Outcome("AsyncShare", "none", name, Len(x.objs) + 1, FALSE,
                                    Len(x.objs) + 1)]

\* An add that puts the share into the table whatever is there.
AddedOver(x, plugin, share) ==
    [x EXCEPT !.keys = @ \cup {plugin}, !._shares[plugin][x.objs[share].name] = share,
              !.last = Outcome("add", plugin, x.objs[share].name, share, FALSE, NoShare)]

\* IPCManager.add: setdefault makes the plugin's dict, then BotIpcError when
\* the name is taken there.
Added(x, plugin, share) ==
    LET name == x.objs[share].name
        y == [x EXCEPT !.keys = @ \cup {plugin}]
    IN  IF y._shares[plugin][name] # NoShare
        THEN [y EXCEPT !.last = Outcome("add", plugin, name, share, TRUE, NoShare)]
        ELSE [y EXCEPT !._shares[plugin][name] = share,
                       !.last = Outcome("add", plugin, name, share, FALSE, NoShare)]

AsyncShare(name, reflector, callabck, static) ==
    /\ Len(ipc.objs) < MaxShares
    /\ ipc' = Made(ipc, name, reflector, callabck, static)
    /\ UNCHANGED ipcframe

\* share(func): binds the reflector unless there is one.
__call__(share) ==
    /\ ipc' = IF ipc.objs[share].reflect
              THEN [ipc EXCEPT !.last = Outcome("__call__", "none", <<>>, share, TRUE, NoShare)]
              ELSE [ipc EXCEPT !.objs[share].reflect = TRUE,
                               !.last = Outcome("__call__", "none", <<>>, share, FALSE, NoShare)]
    /\ UNCHANGED ipcframe

\* share.setter(func): BotIpcError for a static share and for one that has a
\* callback.
setter(share) ==
    /\ ipc' = IF ipc.objs[share].static \/ ipc.objs[share].callback
              THEN [ipc EXCEPT !.last = Outcome("setter", "none", <<>>, share, TRUE, NoShare)]
              ELSE [ipc EXCEPT !.objs[share].callback = TRUE,
                               !.last = Outcome("setter", "none", <<>>, share, FALSE, NoShare)]
    /\ UNCHANGED ipcframe

ipc_add(plugin, share) ==
    /\ ipc' = Added(ipc, plugin, share)
    /\ UNCHANGED ipcframe

\* IPCManager.add_func: a static share with the name of the function; when
\* the add is refused nothing refers to the share and it is gone.
add_func(plugin, name) ==
    /\ Len(ipc.objs) < MaxShares
    /\ LET x == Made(ipc, name, TRUE, FALSE, TRUE)
           y == Added(x, plugin, Len(x.objs))
       IN  ipc' = IF x.last.raised THEN x
                 ELSE IF y.last.raised THEN [ipc EXCEPT !.last = y.last]
                 ELSE y
    /\ UNCHANGED ipcframe

\* IPCManager.get
ipc_get(plugin, id) ==
    /\ ipc' = IF plugin \notin ipc.keys \/ ipc._shares[plugin][id] = NoShare
              THEN [ipc EXCEPT !.last = Outcome("get", plugin, id, NoShare, TRUE, NoShare)]
              ELSE [ipc EXCEPT !.last = Outcome("get", plugin, id, NoShare, FALSE,
                                                ipc._shares[plugin][id])]
    /\ UNCHANGED ipcframe

InitIPC ==
    /\ ipc = IPCManager
    /\ rwc = 0 /\ di = 0 /\ slots = 0 /\ cool = 0 /\ speed = 0
    /\ NoSessions
    /\ NoTwin
    /\ NoManager

NextIPC ==
    \/ \E name \in Names, r \in BOOLEAN, c \in BOOLEAN, s \in BOOLEAN : AsyncShare(name, r, c, s)
    \/ \E share \in DOMAIN ipc.objs : __call__(share)
    \/ \E share \in DOMAIN ipc.objs : setter(share)
    \/ \E plugin \in Plugins, share \in DOMAIN ipc.objs : ipc_add(plugin, share)
    \/ \E plugin \in Plugins, name \in Names : add_func(plugin, name)
    \/ \E plugin \in Plugins, id \in Names : ipc_get(plugin, id)

SpecIPC == InitIPC /\ [][NextIPC]_vars

(***************************************************************************)
(* Properties.                                                             *)
(***************************************************************************)
Live == {"Working", "Spare", "Suspended"}
\* t is between obtaining its session from Session.get and leaving the session's ctx().
InHandler(t) == task[t].pc \in {"run", "suspwait"}
Handlers(s) == {t \in Tasks : InHandler(t) /\ task[t].cur = s}
\* t is inside Session.get, holding or awaiting the lock of its rule.
InGet(t) == task[t].pc \in {"lock", "cmp", "rfwait"}
\* t waits on refresh_cond of its current session and has not been notified.
Waiting(t) == task[t].pc = "rfwait" /\ ~InSeq(ready, t)
\* t was notified on refresh_cond and has not run yet.
Notified(t) == task[t].pc = "rfwait" /\ InSeq(ready, t)

(* C1: at most one handler task at a time is between obtaining a session from
   Session.get and leaving its ctx(), and while it is there the session is Working (or
   Suspended by that handler); get hands a session to a caller only by creating it or
   by moving it from Spare to Working, and never while another handler is in it. *)
C1_OneHandlerPerSession ==
    /\ [](\A s \in Sessions :
            /\ Cardinality(Handlers(s)) <= 1
            /\ Handlers(s) # {} => session[s].state \in {"Working", "Suspended"})
    /\ [][\A t \in Tasks :
            (~InHandler(t) /\ InHandler(t)') =>
                LET s == task'[t].cur
                IN /\ session[s].state \in {"Absent", "Spare"}
                   /\ session[s].state = "Absent" <=> s = t
                   /\ session'[s].state = "Working"
                   /\ Handlers(s) = {}]_vars

\* A second delivery waited for the session's first handler and now runs on the session.
C1_Witness ==
    \E t \in Tasks :
        /\ task[t].pc = "run" /\ task[t].how = "waited"
        /\ task[t].cur # t
        /\ task[task[t].cur].pc = "done" /\ task[task[t].cur].out = "exited"
        /\ session[task[t].cur].event = t

(* C2 (as claimed): a session created under rule R is in registry[R] iff it is Working,
   Spare or Suspended; it is removed on entry to Expired. *)
C2_RegistryIffLive ==
    \A s \in Sessions : \A r \in Rules :
        (session[s].state # "Absent" /\ session[s].rule = r)
            => (s \in instances[r] <=> session[s].state \in Live)

(* C2 (amended): every Working, Spare or Suspended session created under rule R is in
   registry[R], and registry[R] holds only sessions created under R; an Expired session
   stays in registry[R] until a get call of R that reaches creation removes it, and only
   Expired sessions are ever removed. *)
C2_LiveRegistered ==
    /\ [](\A s \in Sessions : \A r \in Rules :
            /\ (session[s].state \in Live /\ session[s].rule = r) => s \in instances[r]
            /\ s \in instances[r] => (session[s].rule = r /\ session[s].state # "Absent"))
    /\ [][\A s \in Sessions : \A r \in Rules :
            (s \in instances[r] /\ s \notin instances'[r]) =>
                /\ session[s].state = "Expired"
                /\ \E t \in Tasks : /\ ~InHandler(t) /\ task'[t].pc = "run"
                                    /\ task'[t].how = "created" /\ t \in instances'[r]]_vars

\* Scenario S1 has ended: the only handler returned with keep=false, and the Expired
\* session is still registered.
C2_Witness ==
    \E r \in Rules :
        /\ instances[r] = {1}
        /\ session[1].state = "Expired"
        /\ task[1].pc = "done" /\ task[1].path = "return"
        /\ \A t \in Tasks : t # 1 => task[t].pc = "idle"

\* Handler h is blocked in suspend, in wakeup_cond.wait() of session s.
Blocked(h, s) == task[h].pc = "suspwait" /\ task[h].cur = s /\ InSeq(wakeup_cond[s], h)
\* suspend returns to h, and nothing interfered (no cancellation, no timeout).
ResumesPlainly(h) == task[h].pc = "suspwait" /\ task[h].intr = "none" /\ task'[h].pc = "run"
\* The delivery whose event is bound to the session of h.
Waker(h) == session[task[h].cur].event

(* C3: when the scan of Session.get(e, rule) finds that a Suspended session S matches e,
   the call binds e to S, makes S Working, wakes the handler blocked in suspend (which
   then resumes with result true, unless it is cancelled or timed out first), returns
   absent, creates and registers no session and runs no handler for e. *)
C3_WakeupPreemptsCreation ==
    /\ [][\A t \in Tasks :
            LET s == task[t].cur
            IN (/\ task[t].pc = "cmp" /\ task[t].phase = "susp" /\ task[t].cmpres
                /\ session[s].state = "Suspended" /\ task'[t] # task[t]) =>
                   /\ task'[t].pc = "done" /\ task'[t].out = "woke"
                   /\ session'[s].state = "Working" /\ session'[s].event = t
                   /\ session[t].state = "Absent" /\ session'[t] = session[t]
                   /\ instances' = instances
                   /\ \A h \in Tasks : Blocked(h, s) => InSeq(ready', h) /\ ~Blocked(h, s)']_vars
    /\ [][\A h \in Tasks :
            (ResumesPlainly(h) /\ task[Waker(h)].out = "woke") =>
                /\ task'[h].sres = "true"
                /\ task[Waker(h)].cur = task[h].cur
                /\ session'[task[h].cur].state = "Working"]_vars
    /\ [](\A t \in Tasks : task[t].out = "woke" =>
            task[t].pc = "done" /\ session[t].state = "Absent" /\ task[t].how = "none")

\* Scenario S3: the handler of session 1 called suspend(), delivery 2 woke it and is done
\* without a session; suspend returned true and the handler sees event 2.
C3_Witness ==
    /\ task[1].pc = "run" /\ task[1].sres = "true" /\ task[1].cur = 1
    /\ task[2].pc = "done" /\ task[2].out = "woke" /\ task[2].cur = 1
    /\ session[1].state = "Working" /\ session[1].event = 2
    /\ session[2].state = "Absent"

(* C4: when the handler of a Working session S calls suspend while a get call (event E2,
   wait=true) waits on refresh_cond of S, the waiter is notified, finds S Suspended when
   it runs, binds E2 to S and wakes the handler, and returns absent; the handler's
   suspend returns true with S.event = E2 (unless cancelled or timed out first); and
   neither the notified waiter nor the woken handler stays unrun for ever. *)
C4_SuspendUnblocksWaiter ==
    /\ [][\A s \in Sessions :
            (session[s].state = "Working" /\ session'[s].state = "Suspended") =>
                /\ \A w \in Tasks : InSeq(Woken(refresh_cond[s]), w) => Notified(w)'
                /\ \E h \in Tasks : Blocked(h, s)']_vars
    /\ [][\A w \in Tasks :
            LET s == task[w].cur
            IN (Notified(w) /\ session[s].state = "Suspended") =>
                  IF task'[w] = task[w]
                  THEN session'[s].state = "Suspended" /\ Notified(w)'
                  ELSE /\ task'[w].pc = "done" /\ task'[w].out = "woke_waited"
                       /\ session'[s].state = "Working" /\ session'[s].event = w
                       /\ session'[w] = session[w] /\ instances' = instances
                       /\ \A h \in Tasks : Blocked(h, s) => InSeq(ready', h)]_vars
    /\ [][\A h \in Tasks :
            (ResumesPlainly(h) /\ task[Waker(h)].out = "woke_waited") =>
                /\ task'[h].sres = "true"
                /\ task[Waker(h)].cur = task[h].cur
                /\ session'[task[h].cur].state = "Working"]_vars
    /\ []<>(\A t \in Tasks : ~Notified(t) /\ ~(task[t].pc = "suspwait" /\ InSeq(ready, t)))

\* Delivery 2 waited for session 1, whose handler then called suspend(): delivery 2 woke
\* it and is done; suspend returned true and the handler sees event 2.
C4_Witness ==
    /\ task[1].pc = "run" /\ task[1].sres = "true" /\ task[1].cur = 1
    /\ task[2].pc = "done" /\ task[2].out = "woke_waited" /\ task[2].cur = 1
    /\ session[1].state = "Working" /\ session[1].event = 2
    /\ session[2].state = "Absent"

(* C5: with wait=true, a get call that waits for a matching Working session S is not
   notified and does not move while S stays Working.  When it runs after S left Working
   and S is Spare, it returns S, Working again and bound to the new event, with the
   call's keep.  When S is Expired it never returns S: S joins the expired sessions to
   remove, and the call returns a newly created and registered session without S in the
   registry (at once if no other Working session is left to scan; a call that has seen
   its session expire holds a session only by creating it or by waiting for another). *)
C5_WaitBehindWorking ==
    /\ [](\A w \in Tasks :
            /\ (task[w].pc = "rfwait" /\ session[task[w].cur].state = "Working")
                   => (Waiting(w) /\ arg[w].wait /\ InSeq(refresh_cond[task[w].cur], w))
            /\ (task[w].seen /\ InHandler(w)) =>
                   \/ task[w].how = "waited"
                   \/ /\ task[w].how = "created" /\ task[w].cur = w
                      /\ \E r \in Rules : w \in instances[r])
    /\ [][\A w \in Tasks :
            (Waiting(w) /\ session'[task[w].cur].state = "Working") => Waiting(w)']_vars
    /\ [][\A w \in Tasks :
            LET s == task[w].cur
            IN (Notified(w) /\ task'[w] # task[w]) =>
                 /\ session[s].state = "Spare" =>
                        /\ task'[w].pc = "run" /\ task'[w].cur = s /\ task'[w].how = "waited"
                        /\ session'[s] = [session[s] EXCEPT !.state = "Working", !.event = w,
                                                            !.keep = arg[w].keep]
                        /\ instances' = instances
                 /\ session[s].state = "Expired" =>
                        /\ task'[w].pc \in {"cmp", "run"}
                        /\ task'[w].pc = "cmp" =>
                              /\ task'[w].phase = "work" /\ s \in task'[w].expires
                              /\ task'[w].cur # s /\ task'[w].seen
                        /\ NoneIn(task[w].todo, "Working") => task'[w].pc = "run"
                        /\ task'[w].pc = "run" =>
                              /\ task'[w].cur = w /\ task'[w].how = "created"
                              /\ session'[w] = NewSession(w, arg[w].rule, arg[w].keep)
                              /\ w \in instances'[arg[w].rule]
                              /\ s \notin instances'[arg[w].rule]]_vars

\* Scenario S4, both endings: delivery 2 waited for session 1 and now runs on it, or
\* session 1 expired and delivery 2 runs on its own new session.
C5_Witness ==
    /\ task[1].pc = "done"
    /\ task[2].pc = "run"
    /\ \/ task[2].how = "waited" /\ task[2].cur = 1 /\ session[1].event = 2
       \/ /\ task[2].seen /\ task[2].how = "created" /\ session[1].state = "Expired"
          /\ \E r \in Rules : instances[r] = {2}

(* C6: on a lone session, every operation the transition table marks as an error (work
   from Working, Suspended or Expired; rest and suspend from Spare, Suspended or
   Expired; wakeup from Spare, Working or Expired), and rest or suspend on a session
   without a rule, raises SessionStateError and leaves state and event as they were. *)
C6_ErrorPairsRefused ==
    LET errors == ({"Working", "Suspended", "Expired"} \X {"work"})
                    \cup ({"Spare", "Suspended", "Expired"} \X {"rest", "suspend"})
                    \cup ({"Spare", "Working", "Expired"} \X {"wakeup"})
    IN (\/ <<obj.pstate, obj.op>> \in errors
        \/ obj.op \in {"rest", "suspend"} /\ obj.s.rule = NoRule) =>
            /\ obj.raised
            /\ obj.s.state = obj.pstate
            /\ obj.s.event = obj.pevent

\* suspend() was called on a Working session without a rule, and raised.
C6_Witness ==
    /\ obj.op = "suspend" /\ obj.pstate = "Working" /\ obj.s.rule = NoRule
    /\ obj.raised /\ obj.s.state = "Working"

(* C7: a new session is Working and bound to its triggering event; on a lone session the
   legal operations reach the state of the transition table: Spare.work(e) gives Working
   with event e, Working.rest() gives Spare and Working.suspend() gives Suspended (on a
   session with a rule), Suspended.wakeup(e) gives Working with event e,
   Working.expire() gives Expired; and no operation leaves Expired. *)
C7_LegalTransitions ==
    /\ obj.op = "init" => ~obj.raised /\ obj.s.state = "Working" /\ obj.s.event = obj.ev
    /\ (obj.pstate = "Spare" /\ obj.op = "work") =>
            ~obj.raised /\ obj.s.state = "Working" /\ obj.s.event = obj.ev
    /\ (obj.pstate = "Working" /\ obj.op = "rest" /\ obj.s.rule # NoRule) =>
            ~obj.raised /\ obj.s.state = "Spare" /\ obj.s.event = obj.pevent
    /\ (obj.pstate = "Working" /\ obj.op = "suspend" /\ obj.s.rule # NoRule) =>
            ~obj.raised /\ obj.s.state = "Suspended" /\ obj.s.event = obj.pevent
    /\ (obj.pstate = "Suspended" /\ obj.op = "wakeup") =>
            ~obj.raised /\ obj.s.state = "Working" /\ obj.s.event = obj.ev
    /\ (obj.pstate = "Working" /\ obj.op = "expire") =>
            ~obj.raised /\ obj.s.state = "Expired" /\ obj.s.event = obj.pevent
    /\ obj.pstate = "Expired" => obj.s.state = "Expired"

\* wakeup(e) was called on a Suspended session bound to another event.
C7_Witness ==
    /\ obj.op = "wakeup" /\ obj.pstate = "Suspended" /\ obj.ev # obj.pevent
    /\ obj.s.state = "Working" /\ obj.s.event = obj.ev

(* C8 (as claimed): expire() never raises, and leaves the session Expired, whatever
   state it was called in. *)
C8_ExpireNeverFails == obj.op = "expire" => ~obj.raised /\ obj.s.state = "Expired"

(* C9 (as claimed): whenever a handler task leaves its session's ctx(), on any path and
   from any state, the session is Spare if its keep is true and Expired otherwise. *)
C9_CtxAlwaysReleases ==
    [][\A t \in Tasks :
        (InHandler(t) /\ task'[t].pc = "done") =>
            session'[task[t].cur].state =
                IF session[task[t].cur].keep THEN "Spare" ELSE "Expired"]_vars

\* t leaves ctx() because its task was cancelled.
CancelExit(t) == InHandler(t) /\ task'[t].pc = "done" /\ task'[t].path = "cancel"

(* C10 (as claimed): when the handler task is cancelled inside ctx(), the session keeps
   its event and ends Spare if keep is true and Expired otherwise. *)
C10_CancelAlwaysReleases ==
    [][\A t \in Tasks :
        LET s == task[t].cur
        IN CancelExit(t) =>
            /\ session'[s].event = session[s].event
            /\ session'[s].state = IF session[s].keep THEN "Spare" ELSE "Expired"]_vars

(* C10 (amended): when the handler task is cancelled inside ctx(), the session (Working
   or Suspended at that point) keeps its event; it ends Expired if keep is false, Spare
   if keep is true and it has a rule, and the exit raises nothing; a session without a
   rule and with keep true stays Working and the exit raises SessionStateError. *)
C10_CancelReleases ==
    [][\A t \in Tasks :
        LET s == task[t].cur
        IN CancelExit(t) =>
            /\ session[s].state \in {"Working", "Suspended"}
            /\ session'[s].event = session[s].event
            /\ task'[t].pstate = session[s].state
            /\ IF session[s].keep /\ session[s].rule = NoRule
               THEN session[s].state = "Working" /\ session'[s].state = "Working" /\ task'[t].err
               ELSE /\ session'[s].state = IF session[s].keep THEN "Spare" ELSE "Expired"
                    /\ ~task'[t].err]_vars

\* A handler was cancelled while its session was Suspended; the session, woken by ctx()
\* with its own event, is now Spare.
C10_Witness ==
    \E t \in Tasks :
        /\ task[t].pc = "done" /\ task[t].path = "cancel" /\ task[t].pstate = "Suspended"
        /\ ~task[t].err
        /\ session[task[t].cur].state = "Spare" /\ session[task[t].cur].keep

\* suspend(timeout) of h timed out and returned false; h is still in its handler.
TimedOut(h) == task[h].pc = "run" /\ task[h].sres = "false"

(* C11: when the timer of suspend(timeout) fires on a handler still waiting, and when that
   handler then resumes, the session and the registry are left as they are and the
   handler gets false; a handler that got false with its session still Suspended has the
   session registered under its rule, and a get whose event matches it still wakes the
   session (binds the event, makes it Working, returns absent). *)
C11_TimeoutKeepsSuspended ==
    /\ [][\A h \in Tasks :
            LET s == task[h].cur
            IN /\ (task[h].pc = "suspwait" /\ task[h].intr = "none" /\ task'[h].intr = "timeout") =>
                     /\ session[s].state = "Suspended"
                     /\ session' = session /\ instances' = instances
               /\ (task[h].pc = "suspwait" /\ task[h].intr = "timeout" /\ task'[h] # task[h]
                   /\ task'[h].intr # "cancel") =>
                     /\ TimedOut(h)' /\ task'[h].cur = s
                     /\ session' = session /\ instances' = instances
               /\ TimedOut(h) /\ session[s].state = "Suspended" =>
                     \A t \in Tasks :
                        (/\ task[t].pc = "cmp" /\ task[t].phase = "susp" /\ task[t].cur = s
                         /\ task[t].cmpres /\ task'[t] # task[t]) =>
                            /\ session'[s].state = "Working" /\ session'[s].event = t
                            /\ task'[t].pc = "done" /\ task'[t].out = "woke"]_vars
    /\ [](\A h \in Tasks :
            (TimedOut(h) /\ session[task[h].cur].state = "Suspended") =>
                /\ session[task[h].cur].rule \in Rules
                /\ task[h].cur \in instances[session[task[h].cur].rule])

\* The handler of session 1 got false from suspend(timeout); session 1 is still Suspended
\* and registered, and the get of a later event has found that it matches.
C11_Witness ==
    /\ TimedOut(1) /\ task[1].cur = 1
    /\ session[1].state = "Suspended" /\ \E r \in Rules : 1 \in instances[r]
    /\ \E t \in Tasks : /\ task[t].pc = "cmp" /\ task[t].phase = "susp"
                        /\ task[t].cur = 1 /\ task[t].cmpres

\* a comes before b in queue q.
Before(q, a, b) == \E i \in 1 .. Len(q) : \E j \in i + 1 .. Len(q) : q[i] = a /\ q[j] = b
\* h, in suspend, was notified by a wakeup before the deadline of its timeout passed.
NotifiedInTime(h) ==
    /\ task[h].pc = "suspwait" /\ task[h].intr = "none"
    /\ InSeq(ready, h) /\ ~Before(ready, Timer(h), h)
\* A get delivered its event to session s by wakeup.
Delivered(s) ==
    /\ task[session[s].event].pc = "done" /\ task[session[s].event].cur = s
    /\ task[session[s].event].out \in {"woke", "woke_waited"}

(* C12: a handler in suspend whose session is Suspended, and which was neither notified
   nor timed out nor cancelled, is a waiter of wakeup_cond (there is no window after the
   session became Suspended in which a wakeup finds nobody); a wakeup that finds the
   handler waiting before the deadline passed notifies it, and a handler notified before
   the deadline gets true, unless its task is cancelled, even when the deadline passes
   before it runs; suspend gives true only when a get delivered its event to the
   session by wakeup, and false only after its timer fired. *)
C12_TrueIffWokenInTime ==
    /\ [](\A h \in Tasks :
            (/\ task[h].pc = "suspwait" /\ task[h].intr = "none" /\ ~InSeq(ready, h)) =>
                /\ session[task[h].cur].state = "Suspended"
                /\ Blocked(h, task[h].cur))
    /\ [][\A h \in Tasks :
            LET s == task[h].cur
            IN /\ (/\ Blocked(h, s) /\ task[h].intr = "none" /\ ~InSeq(ready, Timer(h))
                   /\ session[s].state = "Suspended" /\ session'[s].state = "Working") =>
                       NotifiedInTime(h)'
               /\ NotifiedInTime(h) =>
                       \/ NotifiedInTime(h)'
                       \/ task'[h].intr = "cancel"
                       \/ task'[h].pc = "run" /\ task'[h].sres = "true"
               /\ (task[h].pc = "suspwait" /\ task'[h].pc = "run") =>
                       /\ task'[h].sres \in {"true", "false"}
                       /\ task'[h].sres = "true" =>
                              /\ task[h].intr \in {"none", "race"}
                              /\ session[s].state = "Working" /\ Delivered(s)
                       /\ task'[h].sres = "false" => task[h].intr \in {"timeout", "race"}]_vars

\* The handler of session 1, in suspend(timeout), was woken by delivery 2; the deadline
\* passed after that and before the handler ran.
C12_Witness ==
    /\ NotifiedInTime(1) /\ task[1].tmo /\ InSeq(ready, Timer(1))
    /\ task[1].cur = 1 /\ session[1].state = "Working" /\ session[1].event = 2
    /\ Delivered(1)

(* C13: when the compare of the spare scan of Session.get (which follows a suspended
   scan that matched nothing) finds that Spare session S matches the event, the call
   returns that S, Working, bound to the event, with the call's keep, and with its
   store and rule as they were; it creates no session and leaves the registry alone. *)
C13_SpareReattached ==
    [][\A t \in Tasks :
        LET s == task[t].cur
        IN (/\ task[t].pc = "cmp" /\ task[t].phase = "spare" /\ task[t].cmpres
            /\ task'[t] # task[t]) =>
               /\ session[s].state = "Spare" /\ s # t
               /\ task'[t].pc = "run" /\ task'[t].cur = s /\ task'[t].how = "attached"
               /\ session'[s] = [session[s] EXCEPT !.state = "Working", !.event = t,
                                                   !.keep = arg[t].keep]
               /\ session'[s].store = session[s].store
               /\ \A u \in Sessions \ {s} : session'[u] = session[u]
               /\ session[t].state = "Absent"
               /\ instances' = instances]_vars

\* Delivery 2 runs on session 1, which delivery 1 created with keep, wrote its store
\* and left Spare; the session has delivery 2's event and keep, and delivery 1's store.
C13_Witness ==
    /\ task[2].pc = "run" /\ task[2].how = "attached" /\ task[2].cur = 1
    /\ session[1].state = "Working" /\ session[1].event = 2 /\ ~session[1].keep
    /\ session[1].store = 1 /\ session[2].state = "Absent"

(* C14: when the compare of the working scan of a get with wait=false finds a match, the
   call ends in that step: nowait_cb is called once if one was given and not at all
   otherwise, the call returns absent and joins no refresh_cond, and every session (state,
   event, keep, store) and the registry stay as they are; nowait_cb is called nowhere
   else, and a call that ended this way has no session. *)
C14_NoWaitReturnsAbsent ==
    /\ [][\A t \in Tasks :
            (/\ task[t].pc = "cmp" /\ task[t].phase = "work" /\ task[t].cmpres
             /\ ~arg[t].wait /\ task'[t] # task[t]) =>
                /\ task'[t].pc = "done" /\ task'[t].out = "nowait"
                /\ task[t].ncb = 0 /\ task'[t].ncb = IF arg[t].cb THEN 1 ELSE 0
                /\ session' = session /\ instances' = instances
                /\ refresh_cond' = refresh_cond /\ wakeup_cond' = wakeup_cond]_vars
    /\ [](\A t \in Tasks :
            /\ task[t].ncb \in {0, 1}
            /\ task[t].ncb = 1 => task[t].out = "nowait"
            /\ task[t].out = "nowait" =>
                  /\ task[t].pc = "done" /\ session[t].state = "Absent"
                  /\ \A r \in Rules : t \notin instances[r])

\* Delivery 2, with wait=false and a callback, matched session 1 while it was Working:
\* the callback ran once, delivery 2 is done without a session, session 1 is as it was.
C14_Witness ==
    /\ task[2].pc = "done" /\ task[2].out = "nowait" /\ task[2].ncb = 1 /\ task[2].cur = 1
    /\ session[1].state = "Working" /\ session[1].event = 1 /\ task[1].pc = "run"
    /\ session[2].state = "Absent"

\* Deliveries t1 and t2 called get under the same rule, t1 first (deliveries are numbered
\* in the order of their calls).
CalledBefore(t1, t2) ==
    /\ t1 < t2 /\ task[t2].pc # "idle"
    /\ arg[t1].rule # NoRule /\ arg[t1].rule = arg[t2].rule

(* C15: get calls under one rule leave get in the order in which they were made: while
   an earlier call is still inside get (queued for the rule's lock, scanning, or waiting
   for a Working session) a later call of the same rule is queued for the lock, and so
   has neither a session nor a result; this holds whether or not the events match,
   whatever wait is and whether or not a session is Suspended. *)
C15_FifoPerRule ==
    /\ [](\A t1, t2 \in Tasks :
            (CalledBefore(t1, t2) /\ InGet(t1)) =>
                /\ task[t2].pc = "lock"
                /\ InSeq(instance_locks[arg[t2].rule].q, t2) \/ InSeq(ready, t2)
                /\ task[t1].pc = "lock" =>
                      /\ ~InSeq(ready, t2)
                      /\ InSeq(ready, t1) \/ Before(instance_locks[arg[t1].rule].q, t1, t2))
    /\ [][\A t1, t2 \in Tasks :
            (CalledBefore(t1, t2) /\ ~InHandler(t2) /\ InHandler(t2)') =>
                task[t1].pc \in {"run", "suspwait", "done"}]_vars

\* Deliveries 2 and 3, of the user of session 1 and with wait=true, each waited for the
\* handler before it: delivery 2 ran on session 1 and is done, delivery 3 runs on it now.
C15_Witness ==
    /\ arg[1].user = arg[2].user /\ arg[2].user = arg[3].user
    /\ arg[1].rule = arg[2].rule /\ arg[2].rule = arg[3].rule /\ arg[1].rule # NoRule
    /\ task[1].pc = "done" /\ task[1].out = "exited" /\ task[1].cur = 1
    /\ task[2].pc = "done" /\ task[2].out = "exited" /\ task[2].cur = 1
    /\ task[3].pc = "run" /\ task[3].how = "waited" /\ task[3].cur = 1
    /\ session[1].event = 3

\* Sessions s1 and s2 are registered under rule r, not Expired, and their events match.
Duplicates(r, s1, s2) ==
    /\ s1 # s2 /\ s1 \in instances[r] /\ s2 \in instances[r]
    /\ session[s1].state \in Live /\ session[s2].state \in Live
    /\ Compare(session[s1].event, session[s2].event, arg)

(* C16 (as claimed): a get creates a session only when no Working, Spare or Suspended session
   of the rule's registry matches its event at that moment, and no reachable state has
   two registered sessions of one rule that are not Expired and whose events match. *)
C16_NoDuplicateSessions ==
    /\ [](\A r \in Rules : \A s1, s2 \in Sessions : ~Duplicates(r, s1, s2))
    /\ [][\A t \in Tasks :
            (~InHandler(t) /\ InHandler(t)' /\ task'[t].how = "created" /\ arg'[t].rule # NoRule) =>
                \A s \in instances[arg'[t].rule] :
                    session[s].state \in Live => ~Compare(session[s].event, t, arg)]_vars

\* Session s was made by a get without a rule.
OneShot(s) == session[s].state # "Absent" /\ session[s].rule = NoRule

(* C17: a get without a rule returns at once a new session that is Working, bound to the
   event, with an empty store, and leaves the registry, the locks and every other
   session alone; such a session is in no registry set, is only ever Working or Expired,
   and the only change of its state is from Working to Expired. *)
C17_OneShotSession ==
    /\ [][\A t \in Tasks :
            (task[t].pc = "idle" /\ task'[t].pc # "idle" /\ arg'[t].rule = NoRule) =>
                /\ task'[t].pc = "run" /\ task'[t].cur = t /\ task'[t].how = "created"
                /\ session[t].state = "Absent"
                /\ session'[t].state = "Working" /\ session'[t].event = t
                /\ session'[t].rule = NoRule /\ session'[t].store = 0
                /\ \A u \in Sessions \ {t} : session'[u] = session[u]
                /\ instances' = instances /\ instance_locks' = instance_locks
                /\ ready' = ready]_vars
    /\ [](\A s \in Sessions :
            OneShot(s) => /\ session[s].state \in {"Working", "Expired"}
                          /\ \A r \in Rules : s \notin instances[r])
    /\ [][\A s \in Sessions :
            (OneShot(s) /\ session'[s].state # session[s].state) =>
                session[s].state = "Working" /\ session'[s].state = "Expired"]_vars

\* A session made without a rule while the registry holds another session; its handler
\* returned and it is Expired.
C17_Witness ==
    \E s \in Sessions :
        /\ OneShot(s) /\ session[s].state = "Expired" /\ ~session[s].keep
        /\ task[s].pc = "done" /\ task[s].out = "exited" /\ ~task[s].err
        /\ \E r \in Rules : instances[r] # {}

\* A get that holds the work lock and awaits the _free_signal of session s, after
\* it found s suspended and set the deadlock flag.
AwaitsHung(g, s) == caller[g].pc = "get_free" /\ caller[g].cur = s /\ s \in HUP_STORAGE

\* C18: while a get holds the work lock waiting for a busy matching session
\* whose handler has suspended, the try_attach of a matching event is never
\* left waiting for the work lock: its task 'flag' is done, so that it goes on to
\* append the event and rouse the session.
C18_AttachPassesFlag ==
    \A g \in Callers, t \in Callers, s \in BSessions :
        (/\ AwaitsHung(g, s)
         /\ caller[t].pc = "att_wait"
         /\ verify(event(bsession, s), Event(caller, t))) => caller[t].t1 = "done"

\* C19: destory on a session that carries an event makes it expired, with an
\* empty store, event history and suspend-time history, and out of STORAGE,
\* without an error; destory on a session without event raises and changes
\* nothing; the _expire of an expired session (recycle after destory) changes
\* nothing.
C19_Destroy ==
    [][\A t \in Callers :
        LET s == caller[t].cur
        IN  /\ (destory(t) /\ event(bsession, s) # 0) =>
                    /\ caller'[t].pc = "run"
                    /\ bsession'[s].expired
                    /\ ~bsession'[s].store
                    /\ bsession'[s].events = <<>>
                    /\ bsession'[s].hup_times = 0
                    /\ s \notin STORAGE' /\ s \notin HUP_STORAGE'
                    /\ \A o \in BSessions \ {s} : bsession'[o] = bsession[o]
            /\ (destory(t) /\ event(bsession, s) = 0) =>
                    /\ caller'[t].pc = "destory_raised"
                    /\ bsession' = bsession
                    /\ STORAGE' = STORAGE /\ HUP_STORAGE' = HUP_STORAGE
            /\ (recycle(t) /\ bsession[s].expired) =>
                    /\ caller'[t].pc = "done"
                    /\ bsession' = [bsession EXCEPT ![s].free = TRUE]
                    /\ STORAGE' = STORAGE /\ HUP_STORAGE' = HUP_STORAGE]_vars

\* A destroyed session of the handler's space, emptied and out of STORAGE while
\* its body still runs, beside an empty session whose destory raised.
C19_Witness ==
    \E t \in Callers, u \in Callers :
        /\ caller[t].pc = "run" /\ caller[t].cur = t
        /\ bsession[t].tag /\ bsession[t].expired /\ bsession[t].events = <<>>
        /\ ~bsession[t].store /\ bsession[t].hup_times = 0
        /\ caller[u].pc = "destory_raised" /\ caller[u].cur = u
        /\ bsession[u].made /\ ~bsession[u].tag /\ ~bsession[u].expired

\* C20: of the pair that get_twin_event returns exactly one Event is set: the
\* second one after construction, and after every set() or clear() on either of
\* them the one that the call names is set (cleared) and its twin is the opposite.
C20_ExactlyOneSet ==
    LET n == Len(twin.calls)
    IN  /\ twin.p.value["a"] # twin.p.value["b"]
        /\ n = 0 => (~twin.p.value["a"] /\ twin.p.value["b"])
        /\ n > 0 => twin.p.value[twin.calls[n][1]] = (twin.calls[n][2] = "set")

\* A set() and a clear() on each of the two Events, the last call a set() of the first.
C20_Witness ==
    /\ Len(twin.calls) = MaxCalls
    /\ \A x \in Twins, op \in {"set", "clear"} :
            \E i \in 1 .. MaxCalls : twin.calls[i] = <<x, op>>
    /\ twin.calls[MaxCalls] = <<"a", "set">>
    /\ twin.p.value["a"] /\ ~twin.p.value["b"]

Readers == {p \in Procs : rwc.pc[p] = "reading"}
Writers == {p \in Procs : rwc.pc[p] = "writing"}

\* C21: a writer is inside its region alone, without any reader and without
\* another writer, and with a reader cap the readers inside are never more than
\* the cap.
C21_ReadersWriterExclusion ==
    /\ Writers # {} => (Cardinality(Writers) = 1 /\ Readers = {})
    /\ HasReadSemaphore(rwc) => Cardinality(Readers) <= rwc.read_limit
    /\ rwc.read_num >= Cardinality(Readers)

\* Two readers inside together at the cap of two, a third reader waiting for
\* the cap and a writer waiting for the readers.
C21_Witness ==
    /\ rwc.read_limit = 2 /\ Cardinality(Readers) = 2
    /\ \E p \in Procs : rwc.pc[p] = "r_read_semaphore"
    /\ \E p \in Procs : rwc.pc[p] = "w_write_semaphore"

\* The callback body of call c is entered: every argument has its value.
Resolved(c) == Len(di.call[c].args) = Len(di.params)

\* C22: the factory of a cached Depends runs at most once, and exactly once
\* when a resolution got a value from it; every value any resolution gets for
\* it, as an argument or in its dep_scope, is that of the first run.
C22_CachedFactoryOnce ==
    di.cache["D"] =>
        /\ di.runs <= 1
        /\ \A c \in Calls :
            /\ di.call[c].dep_scope["D"] \in {VOID, 1}
            /\ \A i \in 1 .. Len(di.call[c].args) : di.call[c].args[i] = 1
            /\ NotVoid(di.call[c].dep_scope["D"]) => (di.runs = 1 /\ di.cached["D"] = 1)

\* Two resolutions of a callback that asks twice for the cached Depends, one of
\* which had to wait for the other's computation.
C22_Witness ==
    /\ di.cache["D"] /\ di.params = <<"D", "D">> /\ di.runs = 1
    /\ \A c \in Calls : Resolved(c) /\ di.call[c].args = <<1, 1>>
    /\ \E c \in Calls : di.call[c].waited

\* C23: within one call of the injected callback no Depends is fulfilled more
\* than once, and all the arguments, which here all come from D directly or
\* through refs, are the same value.
C23_FulfilledOncePerCall ==
    \A c \in Calls :
        /\ \A d \in Deps : di.call[c].fulfilled[d] <= 1
        /\ \A i, j \in 1 .. Len(di.call[c].args) : di.call[c].args[i] = di.call[c].args[j]

\* The dependencies the call fulfilled: the defaults of the parameters the
\* caller did not supply.
Called == di.pc \in {"body", "DependNotMatched"}
FulfilledDeps == {di.defaults[i] : i \in (1 .. Len(di.params)) \ di.given}
Fetched(dep) == di.ctx[dep.src]
Unmatched(dep) ==
    \/ ~is_type(Fetched(dep), dep.hint)
    \/ dep.meta = "Exclude" /\ Excluded(Fetched(dep))
\* The hint is tested: there is no CustomLogger tag, and the hint is not one of
\* a logger unless there is an Exclude tag.
HintTested(dep) ==
    /\ dep.meta # "CustomLogger"
    /\ dep.meta = "Exclude" \/ ~is_subhint(dep.hint, {"Logger"})

\* C24 as stated: a call in which the value fetched for a dependency does not
\* satisfy the hint, or is of an excluded type, raises DependNotMatched with
\* the function, the argument, the type of the value and the hint, and does
\* not enter the body.
C24_UnmatchedRaises ==
    Called =>
        /\ (\E dep \in FulfilledDeps : Unmatched(dep)) => di.pc = "DependNotMatched"
        /\ di.pc = "DependNotMatched" =>
            /\ di.args = <<>>
            /\ \E dep \in FulfilledDeps :
                /\ Unmatched(dep)
                /\ di.exc = [raised |-> TRUE, func_name |-> "func", arg_name |-> dep.arg,
                             real_type |-> Fetched(dep), hint |-> dep.hint]

\* C24 amended: the same for the dependencies whose hint is tested; a value
\* that fails the hint of a dependency with a CustomLogger tag is replaced by
\* the result of the tag's getter, and a logger is handed on untested.
C24_TestedUnmatchedRaises ==
    Called =>
        /\ (\E dep \in FulfilledDeps : HintTested(dep) /\ Unmatched(dep))
                => di.pc = "DependNotMatched"
        /\ di.pc = "DependNotMatched" =>
            /\ di.args = <<>>
            /\ \E dep \in FulfilledDeps :
                /\ HintTested(dep) /\ Unmatched(dep)
                /\ di.exc = [raised |-> TRUE, func_name |-> "func", arg_name |-> dep.arg,
                             real_type |-> Fetched(dep), hint |-> dep.hint]
        /\ di.pc = "body" =>
            \A i \in (1 .. Len(di.params)) \ di.given :
                LET dep == di.defaults[i]
                IN  IF dep.meta = "CustomLogger" /\ ~is_type(Fetched(dep), dep.hint)
                    THEN di.args[i] = [cls |-> "Custom", src |-> "getter"]
                    ELSE di.args[i] = [cls |-> Fetched(dep), src |-> dep.src]

\* The handler asks for an event of type T2 and the event is a T1.
C24_Witness ==
    /\ di.pc = "DependNotMatched"
    /\ di.ctx.event = "T1"
    /\ di.exc = [raised |-> TRUE, func_name |-> "func", arg_name |-> 1,
                 real_type |-> "T1", hint |-> {"T2"}]

\* The sources in the order of the specification, and when each applies to a
\* parameter.
SourceOrder == <<"CustomLogger", "logger", "store", "rule", "bot", "adapter", "event">>
Applies(k, param) ==
    CASE SourceOrder[k] = "CustomLogger" -> param.meta = "CustomLogger"
      [] SourceOrder[k] = "logger" -> is_subhint(param.hint, {"Logger"})
      [] SourceOrder[k] = "store" -> is_subhint(param.hint, {"Store"})
      [] SourceOrder[k] = "rule" -> is_subhint(param.hint, {"Rule", "None"})
      [] SourceOrder[k] = "bot" -> is_subhint(param.hint, {"Bot"})
      [] SourceOrder[k] = "adapter" -> is_subhint(param.hint, {"Adapter"})
      [] OTHER -> is_subhint(param.hint, {"Event"})
NoneApplies(param) == \A k \in DOMAIN SourceOrder : ~Applies(k, param)
\* The context the k-th source reads: the CustomLogger tag reads the logger.
ContextOf(k) == IF k = 1 THEN "logger" ELSE SourceOrder[k]
WrapDone == di.pc # "unwrapped"
BuiltDeps == {di.defaults[i] : i \in DOMAIN di.defaults} \ {NoDep}

\* C25: every dependency built for a parameter reads the context of the first
\* source of the order that applies to the parameter; no dependency is built
\* for an annotated parameter to which none applies, and wrapping a function
\* that has such a parameter with pass_arg false raises DependInitError.
C25_FirstSourceThatApplies ==
    WrapDone =>
        /\ \A dep \in BuiltDeps :
            \E k \in DOMAIN SourceOrder :
                /\ Applies(k, di.params[dep.arg])
                /\ \A j \in 1 .. k - 1 : ~Applies(j, di.params[dep.arg])
                /\ dep.src = ContextOf(k)
        /\ \A i \in DOMAIN di.params :
            (di.params[i].annotated /\ NoneApplies(di.params[i])) =>
                /\ \A dep \in BuiltDeps : dep.arg # i
                /\ ~di.pass_arg => di.pc = "DependInitError"

\* A parameter whose class is both a bot and an event is read from the bot
\* context, and one with a CustomLogger tag and a bot hint from the logger's.
C25_Witness ==
    /\ di.pc = "wrapped"
    /\ di.params = <<[annotated |-> TRUE, hint |-> {"BotEvent"}, meta |-> "none"],
                     [annotated |-> TRUE, hint |-> {"Bot"}, meta |-> "CustomLogger"]>>
    /\ di.defaults[1].src = "bot"
    /\ di.defaults[2].src = "logger"

Injectable(i) ==
    /\ di.params[i].annotated
    /\ orig_getter(di.params[i].hint, di.params[i].meta) # "DependInitError"

\* C26: after wrapping with pass_arg true every injectable parameter has as its
\* default the dependency built for it and every other parameter has none; in
\* the body the injectable parameters the caller left out hold a value of
\* their own source (or of the CustomLogger getter) and the others the
\* caller's.
C26_OwnDependency ==
    (WrapDone /\ di.pass_arg) =>
        /\ \A i \in DOMAIN di.defaults :
            di.defaults[i] = IF Injectable(i)
                             THEN AutoDepends(i, di.params[i].hint, di.params[i].meta)
                             ELSE NoDep
        /\ di.pc = "body" =>
            \A i \in DOMAIN di.params :
                IF Injectable(i) /\ i \notin di.given
                THEN di.args[i].src \in {orig_getter(di.params[i].hint, di.params[i].meta), "getter"}
                ELSE di.args[i].src = "caller"

\* C27: never more executions of the function in progress than the limit.
\* With a callback, a call that arrived when that many were in progress runs
\* the callback, without waiting and without running the function, and any
\* other call runs the function at once; without a callback every call runs
\* the function, after a wait if it arrived when all units were taken.  A
\* finished call returned what the function or the callback returned,
\* whichever it ran.
C27_AtMostLimit ==
    /\ Cardinality(Executing(slots)) <= slots.limit
    /\ \A p \in Procs :
        LET c == slots.call[p]
            viaCallback == c.pc = "callback" \/ c.res = "callback"
            viaFunc == c.pc \in {"waiting", "func"} \/ c.res = "func"
        IN  c.pc # "idle" =>
            /\ viaCallback # viaFunc
            /\ c.pc = "done" => c.res \in {"func", "callback"}
            /\ slots.callback => (viaCallback <=> c.full) /\ ~c.waited
            /\ ~slots.callback => viaFunc /\ (c.full => c.waited)

\* A semaphore of two with a callback: two executions in progress and a third
\* call that returned the callback's value.
C27_Witness ==
    /\ slots.callback /\ slots.limit = 2
    /\ Cardinality(Executing(slots)) = 2
    /\ \E p \in Procs : slots.call[p].pc = "done" /\ slots.call[p].res = "callback"

\* How a call of the cooled function went on after it arrived.
RanBusy(c) == c.pc = "busy_callback" \/ c.res = "busy_callback"
RanCd(c) == c.pc = "cd_callback" \/ c.res = "cd_callback"
RanFunc(c) == c.pc = "func" \/ c.res = "func"
NoOverlapNoEarlyStart ==
    /\ Cardinality(CoolExecuting(cool)) <= 1
    /\ \A p \in CoolCalls : cool.call[p].since # Never => cool.call[p].since >= cool.interval

\* C28 as stated: executions do not overlap and none starts less than the
\* interval after the last completion; a call that arrives while the function
\* runs gets busy_callback if there is one and waits otherwise; a call that
\* arrives in the cooling period gets cd_callback with the rest of the period
\* if there is one, and otherwise waits and runs the function.
C28_Cooldown ==
    /\ NoOverlapNoEarlyStart
    /\ \A p \in CoolCalls :
        LET c == cool.call[p]
        IN  /\ c.sit = "running" => (RanBusy(c) <=> cool.busy_callback)
            /\ c.sit = "cooling" =>
                /\ ~RanBusy(c)
                /\ cool.cd_callback /\ c.pc # "waiting" =>
                    RanCd(c) /\ c.arg = cool.interval - c.elapsed
                /\ ~cool.cd_callback => c.pc \in {"waiting", "sleep", "func", "done"}

\* C28 amended: busy_callback goes to the calls that arrive while another call
\* holds the lock, be it running the function, sleeping or in cd_callback;
\* what a call gets in the cooling period is decided when it has the lock, by
\* the time elapsed then since the last completion.
C28_CooldownUnderLock ==
    /\ NoOverlapNoEarlyStart
    /\ \A p \in CoolCalls :
        LET c == cool.call[p]
        IN  c.pc # "idle" =>
            /\ RanBusy(c) <=> (cool.busy_callback /\ c.held)
            /\ ~cool.busy_callback /\ c.held /\ c.elapsed = Never => c.pc = "waiting"
            /\ c.elapsed # Never =>
                IF c.elapsed > cool.interval THEN RanFunc(c) /\ c.since = c.elapsed
                ELSE IF cool.cd_callback
                THEN RanCd(c) /\ c.arg = cool.interval - c.elapsed /\ c.since = Never
                ELSE /\ c.pc \in {"sleep", "func", "done"}
                     /\ c.pc # "sleep" => RanFunc(c) /\ c.since >= cool.interval

\* A call that came in the cooling period slept it out and ran the function,
\* and a call that came while it slept got busy_callback.
C28_Witness ==
    /\ cool.busy_callback /\ ~cool.cd_callback /\ cool.interval = 2
    /\ \E p, q \in CoolCalls :
        /\ cool.call[p].sit = "cooling" /\ cool.call[p].elapsed = 1
        /\ cool.call[p].res = "func" /\ cool.call[p].since = 2
        /\ cool.call[q].sit = "cooling" /\ cool.call[q].res = "busy_callback"

\* The executions of the function that started in the ticks t .. t + duration - 1.
StartedIn(t) ==
    {p \in SpeedCalls : speed.call[p].started \in t .. (t + speed.duration - 1)}

\* C29: in every window of the length of the duration at most limit
\* executions of the function start; a call over the limit gets the callback
\* when there is one, and without one no call ends otherwise than by running
\* the function.
C29_AtMostLimitPerWindow ==
    /\ \A t \in 0 .. MaxTime : Cardinality(StartedIn(t)) <= speed.limit
    /\ \A p \in SpeedCalls :
        LET c == speed.call[p]
        IN  /\ (c.pc = "callback" \/ c.res = "callback") <=> (speed.callback /\ c.over)
            /\ c.pc = "done" /\ ~speed.callback => c.res = "func"

\* The shares and the table are what they were.
NothingChanged == ipc'.objs = ipc.objs /\ ipc'._shares = ipc._shares /\ ipc'.keys = ipc.keys
Rejected == ipc'.last.raised /\ NothingChanged

\* C30: an operation that breaks a rule of the shares raises BotIpcError and
\* leaves the shares and the table as they were: a share whose name starts
\* with "_", a static share with a setter, a setter for a static share, an add
\* under a plugin and name that are taken, a get of a plugin or name that is
\* not there.  An add under a free name puts the share there, no entry of the
\* table ever changes, and a get of an entry returns it.
C30_RejectedChangesNothing ==
    [][LET l == ipc'.last
       IN  /\ l.op = "AsyncShare" /\ startswith(l.name) => Rejected
           /\ l.op = "AsyncShare" /\ ~l.raised =>
                ~(ipc'.objs[l.share].static /\ ipc'.objs[l.share].callback)
           /\ l.op = "setter" /\ ipc.objs[l.share].static => Rejected
           /\ l.op = "add" /\ ipc._shares[l.plugin][l.name] # NoShare => Rejected
           /\ l.op = "add" /\ ipc._shares[l.plugin][l.name] = NoShare =>
                ~l.raised /\ ipc'._shares[l.plugin][l.name] = l.share
           /\ l.op = "get" /\ ipc._shares[l.plugin][l.name] = NoShare => Rejected
           /\ l.op = "get" /\ ipc._shares[l.plugin][l.name] # NoShare =>
                ~l.raised /\ l.ret = ipc._shares[l.plugin][l.name] /\ NothingChanged
           /\ \A pl \in Plugins, n \in Names :
                ipc._shares[pl][n] # NoShare => ipc'._shares[pl][n] = ipc._shares[pl][n]
           /\ \A i \in DOMAIN ipc'.objs : ipc'.objs[i].static => ~ipc'.objs[i].callback
      ]_vars

\* A second share was offered under a plugin and name that are taken, and the
\* first is still there.
C30_Witness ==
    /\ ipc.last.op = "add" /\ ipc.last.raised
    /\ ipc._shares[ipc.last.plugin][ipc.last.name] \notin {NoShare, ipc.last.share}

\* The call of Session.get of delivery t, made under a rule, returns in this step.
GetReturns(t) ==
    /\ task[t].pc \in {"idle", "lock", "cmp", "rfwait"}
    /\ task'[t].pc \in {"run", "done"}
    /\ arg'[t].rule # NoRule
\* The call returns the session that it created.
GetCreates(t) == GetReturns(t) /\ task'[t].pc = "run" /\ task'[t].how = "created"

(* C31 (as claimed): whenever a call of Session.get under a rule returns, by whichever
   return path, the registry of the rule holds no Expired session. *)
C31_NoExpiredAtReturn ==
    [][\A t \in Tasks :
         GetReturns(t) =>
             \A s \in instances'[arg'[t].rule] : session'[s].state # "Expired"]_vars

(* C31 (amended): only a get that returns by creating a session removes anything from
   the registry of its rule, and what it removes are Expired sessions: every session that
   was Expired when its scan of the Working sessions began, and every session that it
   waited for and found Expired.  A get that returns in any other way leaves the registry
   as it is, Expired sessions included. *)
C31_CreationRemovesCollected ==
    [][\A t \in Tasks :
         GetReturns(t) =>
             LET r == arg'[t].rule
                 gone == instances[r] \ instances'[r]
             IN IF GetCreates(t)
                THEN /\ instances'[r] \ instances[r] = {t}
                     /\ \A s \in gone : session[s].state = "Expired"
                     /\ task[t].phase = "work" => task[t].expires \subseteq gone
                     /\ task[t].phase # "work" =>
                            gone = {s \in instances[r] : session[s].state = "Expired"}
                     /\ (task[t].pc = "rfwait" /\ session[task[t].cur].state = "Expired")
                            => task[t].cur \in gone
                ELSE instances'[r] = instances[r]]_vars

\* A get returned by creating a session and removed an Expired session, while another
\* Expired session, which it had not collected, is still registered.
C31_Witness ==
    \E t \in Tasks : \E r \in Rules : \E s1, s2 \in Sessions :
        /\ task[t].pc = "run" /\ task[t].how = "created" /\ t \in instances[r]
        /\ session[s1].state = "Expired" /\ session[s1].rule = r /\ s1 \notin instances[r]
        /\ session[s2].state = "Expired" /\ s2 \in instances[r]

\* Delivery t holds the lock of the rule of its call.
HoldsRuleLock(t) == arg[t].rule # NoRule /\ instance_locks[arg[t].rule].owner = t
\* Every change of the registry of a rule and every change that a get makes to a session
\* is made by the call that holds the rule's lock (or that took the free lock in the step).
MutatesUnderLock ==
    [][\A r \in Rules :
         (\/ instances'[r] # instances[r]
          \/ \E t \in Tasks : GetReturns(t) /\ arg'[t].rule = r) =>
             \E t \in Tasks :
                 /\ GetReturns(t) /\ arg'[t].rule = r
                 /\ \/ instance_locks[r].owner = t
                    \/ instance_locks[r].owner = NoTask /\ task[t].pc = "idle"
                 /\ \A u \in Tasks \ {t} : task'[u].cur = task[u].cur]_vars

(* C32 (as claimed): the lock of the rule is held during every mutation of the registry and
   while a get waits on refresh_cond, and it is not held while rule.compare is awaited: a
   comparison that suspends keeps no other get of the rule waiting. *)
C32_CompareOutsideLock ==
    /\ MutatesUnderLock
    /\ [](\A t \in Tasks :
            /\ task[t].pc = "rfwait" => HoldsRuleLock(t)
            /\ task[t].pc = "cmp" =>
                   /\ ~HoldsRuleLock(t)
                   /\ \A u \in Tasks : ~InSeq(instance_locks[arg[t].rule].q, u))

(* C32 (amended): a get holds the lock of its rule from its first look at the registry to
   its return: during every mutation of the registry, while it waits on refresh_cond, and
   also while rule.compare is awaited; every other get of the rule that was called in the
   meantime is queued for the lock and has seen nothing of the registry. *)
C32_LockHeldThroughout ==
    /\ MutatesUnderLock
    /\ [](\A t \in Tasks :
            task[t].pc \in {"cmp", "rfwait"} =>
                /\ HoldsRuleLock(t)
                /\ \A u \in Tasks \ {t} :
                       (InGet(u) /\ arg[u].rule = arg[t].rule) =>
                           /\ task[u].pc = "lock"
                           /\ InSeq(instance_locks[arg[t].rule].q, u))

\* Delivery 2 awaits rule.compare on the session of another user, holding the lock;
\* delivery 3 was called since and is queued for the lock.
C32_Witness ==
    /\ task[2].pc = "cmp" /\ ~task[2].cmpres /\ HoldsRuleLock(2)
    /\ task[3].pc = "lock" /\ arg[3].rule = arg[2].rule
    /\ InSeq(instance_locks[arg[2].rule].q, 3)

\* The first waiter of the queue q of a Condition was notified in this step: it left the
\* queue and is ready to run (an empty queue stays empty).
Signalled(q, qnext) ==
    /\ qnext = Rest(q)
    /\ \A t \in Tasks : InSeq(Woken(q), t) => InSeq(ready', t)
\* A waiter left the queue q in this step because it was notified (a waiter that leaves
\* because it is cancelled or timed out is marked so in the same step).
NotifiedOff(q, qnext) ==
    \E t \in Tasks : InSeq(q, t) /\ ~InSeq(qnext, t) /\ task'[t].intr = task[t].intr

(* C33: for a session that has a rule, refresh_cond is signalled in every step in which
   the session leaves Working (by rest, suspend or expire), and the signal comes with the
   change of state: the waiter it wakes runs only afterwards and finds the session no
   longer Working.  wakeup_cond is signalled in every step in which the session goes
   from Suspended to Working, and no waiter of wakeup_cond is notified in any other step. *)
C33_SignalsOnTransitions ==
    /\ [][\A s \in Sessions :
            session[s].rule # NoRule =>
                /\ (session[s].state = "Working" /\ session'[s].state # "Working") =>
                       /\ session'[s].state \in {"Spare", "Suspended", "Expired"}
                       /\ Signalled(refresh_cond[s], refresh_cond'[s])
                /\ (session[s].state = "Suspended" /\ session'[s].state = "Working") =>
                       Signalled(wakeup_cond[s], wakeup_cond'[s])
                /\ NotifiedOff(wakeup_cond[s], wakeup_cond'[s]) =>
                       session[s].state = "Suspended" /\ session'[s].state = "Working"
                /\ NotifiedOff(refresh_cond[s], refresh_cond'[s]) =>
                       /\ session'[s].state # "Working"
                       /\ \/ session[s].state = "Working"
                          \* the cancelled handler of a Suspended session leaves ctx():
                          \* the session is woken and then rested or expired
                          \/ /\ session[s].state = "Suspended"
                             /\ \E h \in Tasks : task[h].cur = s /\ CancelExit(h)]_vars
    /\ [](\A t \in Tasks : Notified(t) => session[task[t].cur].state # "Working")

\* Delivery 2 waited on refresh_cond of session 1, was woken by the handler's suspend
\* and woke the session; the handler, notified on wakeup_cond, is ready to resume.
C33_Witness ==
    /\ task[2].pc = "done" /\ task[2].out = "woke_waited" /\ task[2].cur = 1
    /\ task[1].pc = "suspwait" /\ task[1].intr = "none" /\ InSeq(ready, 1)
    /\ session[1].state = "Working" /\ session[1].event = 2 /\ session[1].rule # NoRule

(* C34: when the event loop runs every ready task, rule.compare returns and every handler
   comes to leave its ctx() or to suspend, every call of Session.get with wait=true
   returns; and a get that waits on refresh_cond of the session it matched, without
   having been notified, waits for a session that is Working, whose leaving Working will
   notify it: no notification is lost while rule.compare is awaited. *)
C34_GetTerminates ==
    /\ \A t \in Tasks : (InGet(t) /\ arg[t].wait) ~> ~InGet(t)
    /\ [](\A t \in Tasks : Waiting(t) => session[task[t].cur].state = "Working")

(* C35: no event given to Session.get under a rule is lost without notice.  A call that
   returns has either returned a session bound to its event, or was refused with
   wait=false, or has bound its event to a Suspended session whose handler was blocked
   in suspend, on wakeup_cond, and is thereby made ready; the handler that resumes finds
   the event in session.event.  Get never returns absent after waking a session whose
   handler no longer waits on wakeup_cond. *)
C35_NoEventLost ==
    /\ [][\A t \in Tasks :
            GetReturns(t) =>
                LET s == task'[t].cur
                IN \/ /\ task'[t].pc = "run"
                      /\ session'[s].state = "Working" /\ session'[s].event = t
                   \/ /\ task'[t].pc = "done" /\ task'[t].out = "nowait" /\ ~arg[t].wait
                   \/ /\ task'[t].pc = "done" /\ task'[t].out \in {"woke", "woke_waited"}
                      /\ session'[s].state = "Working" /\ session'[s].event = t
                      /\ \E h \in Tasks : Blocked(h, s) /\ InSeq(ready', h)]_vars
    /\ [][\A h \in Tasks :
            (ResumesPlainly(h) /\ task'[h].sres = "true") =>
                /\ session'[task[h].cur].event # h
                /\ task[session'[task[h].cur].event].out \in {"woke", "woke_waited"}]_vars

\* The get calls of rule r that have acquired the rule's lock and have not returned.
InSection(r) == {t \in Tasks : arg[t].rule = r /\ task[t].pc \in {"cmp", "rfwait"}}

(* C36: for each rule at most one get is between acquiring the rule's lock and returning,
   and it holds the lock also while it waits on refresh_cond.  So refresh_cond of a
   session has at most one waiter, and while a get waits there every other get of the
   rule that has been called is queued for the lock; none of them leaves the queue
   before the session left Working and the waiter was notified. *)
C36_OneGetPerRule ==
    /\ [](\A r \in Rules :
            /\ Cardinality(InSection(r)) <= 1
            /\ \A t \in InSection(r) : instance_locks[r].owner = t
            /\ \A t \in Tasks : (task[t].pc = "lock" /\ arg[t].rule = r) =>
                   /\ instance_locks[r].owner # NoTask
                   /\ InSeq(ready, t) <=> instance_locks[r].owner = t
                   /\ InSeq(instance_locks[r].q, t) <=> instance_locks[r].owner # t)
    /\ [](\A s \in Sessions :
            /\ Len(refresh_cond[s]) <= 1
            /\ Cardinality({t \in Tasks : task[t].pc = "rfwait" /\ task[t].cur = s}) <= 1
            /\ \A t \in Tasks : InSeq(refresh_cond[s], t) =>
                   /\ Waiting(t) /\ task[t].cur = s /\ session[s].rule = arg[t].rule
                   /\ \A u \in Tasks \ {t} :
                          (InGet(u) /\ arg[u].rule = arg[t].rule) =>
                              InSeq(instance_locks[arg[t].rule].q, u))
    /\ [][\A t \in Tasks : \A u \in Tasks \ {t} :
            (task[t].pc = "rfwait" /\ InSeq(instance_locks[arg[t].rule].q, u)
                /\ ~InSeq(instance_locks'[arg[t].rule].q, u)) =>
                    /\ Notified(t) /\ ~InGet(t)'
                    /\ session[task[t].cur].state # "Working"
                    /\ instance_locks'[arg[t].rule].owner = u]_vars

\* Delivery 2 waits on refresh_cond of session 1, which is Working, and holds the lock;
\* delivery 3, of the same user, is queued for the lock behind it.
C36_Witness ==
    /\ Waiting(2) /\ task[2].cur = 1 /\ session[1].state = "Working"
    /\ refresh_cond[1] = <<2>> /\ HoldsRuleLock(2)
    /\ task[3].pc = "lock" /\ arg[3].user = arg[2].user
    /\ instance_locks[arg[2].rule].q = <<3>>

\* Delivery t, called under a rule, takes a step of its Session.get in this step.
GetStep(t) ==
    /\ task[t].pc \in {"idle", "lock", "cmp", "rfwait"}
    /\ task'[t] # task[t]
    /\ arg'[t].rule # NoRule

(* C37: a step of a Session.get under rule r changes at most one session: the session
   that it creates, or a session of the registry of r whose event matches the call's
   event.  State, event, keep and store of every other session (the sessions of r that
   do not match, the sessions of every other rule and those without a rule) stay as they
   are, as do the registry set and the lock of every other rule and the waiters of
   every other session; the registry of r changes only by the removal of Expired
   sessions and the addition of the session created. *)
C37_GetFrame ==
    [][\A t \in Tasks :
         GetStep(t) =>
             LET r == arg'[t].rule
             IN /\ \A q \in DOMAIN instances \ {r} :
                       instances'[q] = instances[q] /\ instance_locks'[q] = instance_locks[q]
                /\ instances'[r] \ instances[r] \subseteq {t}
                /\ \A s \in instances[r] \ instances'[r] : session'[s].state = "Expired"
                /\ \A s \in Sessions :
                       (\/ session'[s] # session[s]
                        \/ wakeup_cond'[s] # wakeup_cond[s]
                        \/ refresh_cond'[s] # refresh_cond[s]) =>
                           /\ s = task'[t].cur
                           /\ \/ s = t /\ session[s].state = "Absent"
                              \/ /\ s \in instances[r] /\ session[s].rule = r
                                 /\ arg[session[s].event].user = arg'[t].user]_vars

\* Delivery 3, under rule R, was attached to the Spare session 1 of its user while the
\* session of rule Q, of the same user, is Working.
C37_Witness ==
    /\ task[3].pc = "run" /\ task[3].how = "attached" /\ task[3].cur = 1
    /\ session[1].rule = "R" /\ session[1].event = 3
    /\ session[2].rule = "Q" /\ session[2].state = "Working" /\ session[2].event = 2
    /\ arg[2].user = arg[3].user /\ instances["Q"] = {2}

\* C39: every session that has a space tag is, while it is not expired, in exactly one
\* of STORAGE (and then its awake signal is set) and HUP_STORAGE (and then its
\* suspend signal is set), and once it is expired it is in neither.
C39_ExactlyOneStorage ==
    \A s \in BSessions :
        (bsession[s].made /\ bsession[s].tag) =>
            IF bsession[s].expired
            THEN s \notin STORAGE /\ s \notin HUP_STORAGE
            ELSE \/ s \in STORAGE /\ s \notin HUP_STORAGE /\ ~bsession[s].hup
                 \/ s \in HUP_STORAGE /\ s \notin STORAGE /\ bsession[s].hup

\* The handler bodies that run on session s: started by a get and not yet recycled.
Holders(s) == {t \in Callers : caller[t].pc \in InBody \cup {"hung"} /\ caller[t].cur = s}
\* The get of caller t returns a session with a space tag in this step.
GetGives(t) ==
    /\ caller[t].pc \in {"start", "tried", "get_q", "get_wait", "get_free"}
    /\ caller'[t].pc = "run"
    /\ bsession'[caller'[t].cur].tag

(* C40: a session with a space tag has at most one handler body at a time, and its free
   signal is unset while the body runs.  A get returns an existing session only if its
   free signal is set and it is stored, not expired and not suspended, and no body runs
   on it; the get holds the work lock (or takes the free lock in the step), leaves the
   free signal unset and releases the lock. *)
C40_OneHandlerPerBSession ==
    /\ [](\A s \in BSessions :
            (bsession[s].made /\ bsession[s].tag) =>
                /\ Cardinality(Holders(s)) <= 1
                /\ Holders(s) # {} => ~bsession[s].free)
    /\ [][\A t \in Callers :
            GetGives(t) =>
                LET s == caller'[t].cur
                IN /\ ~bsession'[s].free /\ ~bsession'[s].expired
                   /\ \A u \in Callers \ {t} :
                          ~(caller'[u].pc \in InBody \cup {"hung"} /\ caller'[u].cur = s)
                   /\ \/ WORK_LOCKS.owner = t
                      \/ WORK_LOCKS.owner = NoTask /\ caller[t].pc \in {"start", "tried"}
                   /\ WORK_LOCKS'.owner # t
                   /\ IF s = t
                      THEN ~bsession[s].made
                      ELSE /\ bsession[s].free /\ ~bsession[s].expired /\ ~bsession[s].hup
                           /\ s \in STORAGE /\ s \notin HUP_STORAGE
                           /\ Holders(s) = {}]_vars

\* The body of event 3 runs on session 1: the body of event 1 had suspended on it, was
\* roused by event 2 and kept the session alive when it recycled it.
C40_Witness ==
    /\ caller[3].pc = "run" /\ caller[3].cur = 1
    /\ caller[1].pc = "done" /\ caller[2].pc = "done"
    /\ Len(bsession[1].events) = 3 /\ ~bsession[1].free /\ bsession[1].tag
    /\ bsession[1].hup_times = 1

(* C38: no reachable state is a deadlock of the attach protocol: while a try_attach waits
   on its tasks 'flag' and 'lock' and a suspended session matches its event, some
   coroutine that has started can take a step (so that, the event loop running every
   coroutine that can run, the try_attach comes to rouse the session and return True). *)
C38_NoDeadlock ==
    \A t \in Callers :
        (caller[t].pc = "att_wait" /\ Hung(t) # {}) =>
            ENABLED (\E u \in Callers : BMProgress(u))

====
